---- MODULE Spec2Model ----
(***************************************************************************)
(* goday: the refresh Scheduler (providers.go), the plugin registry, the    *)
(* plugin manager and the PluginScheduler dispatcher (example_plugins.go),  *)
(* and the plugins' Fetch with their last-data slot (weather_plugins.go,    *)
(* news plugins).                                                           *)
(*                                                                          *)
(* Time is an integer count of seconds.  A call of time.Now() reads clock;  *)
(* two calls in one function may read different values, which an operation  *)
(* models by drawing the drift between its reads.                           *)
(***************************************************************************)
EXTENDS Integers, Sequences, FiniteSets, TLC

\* ---------------------------------------------------------------- bounds
MaxClock == 2
MaxDrift == 1
MaxInterval == 2
MaxHeap == 2
MaxLoops == 2
MaxCleanups == 2
MaxHits == 2
MaxSourceItems == 1
MaxItems == 2
LongRun == 11
MaxTags == 2
MaxMsgs == 2
MaxPending == 4
ShortInterval == 2
LongInterval == 5

\* ------------------------------------------------------ program constants
HackerNewsLimit == 10
DevToLimit == 10
AggregateLimit == 12
\* time.Hour in seconds, the unit of the clock
Hour == 3600

\* ------------------------------------------------------------ value sets
TaskNames == {"test1", "test2"}
Providers == {"nil", "provider"}
Intervals == 1..MaxInterval
Drifts == 0..MaxDrift
NoTask == "<nil>"

\* The plugin objects: two HackerNewsPlugin (the same ID), a DevToPlugin and a
\* WeatherPlugin.  The user interface also registers the AggregateNewsPlugin
\* "agg" over the two news plugins and the OSRMTrafficPlugin "osrm".
PluginObjs == {"hn", "hn2", "dev", "wx"}
NilPlugin == "nil"
PluginTypes == {"news", "weather"}

\* Plugin.GetID
GetID(p) ==
    CASE p = "wx" -> "openweathermap"
      [] p = "dev" -> "devto"
      [] p = "agg" -> "aggregate-news"
      [] p = "osrm" -> "osrm_traffic"
      [] OTHER -> "hackernews"

\* Plugin.GetType
GetType(p) == IF p = "wx" THEN "weather" ELSE IF p = "osrm" THEN "traffic" ELSE "news"

\* plugin.(NewsPlugin): whether the plugin has the NewsPlugin methods.
IsNewsPlugin(p) == p \notin {"wx", "osrm"}

PluginIDs == {GetID(p) : p \in PluginObjs}
InitOutcomes == {"no config", "ok", "error"}
FetchOutcomes == {"ok", "error", "panic"}
NoErr == "nil"

\* The api_key of the default configuration, the argument of NewWeatherPlugin.
DefaultAPIKey == "YOUR_OWM_API_KEY"

\* What can go wrong in a Fetch before the response is decoded.
FetchFailures == {"request", "do", "read", "json"}

\* The decoded responses of the weather service.
WeatherResponses ==
    {[Temp |-> t, Weather |-> w] :
        t \in {0, 21},
        w \in {<< >>, <<[ID |-> 800, Main |-> "Clear"]>>, <<[ID |-> 501, Main |-> "Rain"]>>}}

\* The hits of the Hacker News search: two stories and one without URL.
Hits == {[Title |-> <<"G", "o">>, URL |-> "u1"],
         [Title |-> <<"p", "y">>, URL |-> "u2"],
         [Title |-> <<"G", "o">>, URL |-> ""]}

\* The articles of the Dev.to API: one tagged "go", one about Python and one
\* without URL.
Articles == {[Title |-> <<"d", "e", "v">>, URL |-> "d1", Description |-> << >>,
              TagList |-> <<(<<"G", "o">>)>>],
             [Title |-> <<"p", "y">>, URL |-> "d2", Description |-> << >>,
              TagList |-> << >>],
             [Title |-> <<"G", "o">>, URL |-> "", Description |-> << >>,
              TagList |-> << >>]}

\* News items for the tag filter: the tag "go" in the title (in upper case,
\* inside a longer title), in the description, as a tag of its own in upper
\* case, inside a longer tag of its own, and nowhere.
NewsItems ==
    {[Title |-> t, URL |-> "u", Description |-> d, Tags |-> g, Source |-> "s"] :
        <<t, d, g>> \in {<<(<<"G", "o">>), << >>, << >>>>,
                         <<(<<"a", "g", "o">>), << >>, << >>>>,
                         <<(<<"p", "y">>), <<"g", "o">>, << >>>>,
                         <<(<<"p", "y">>), << >>, <<(<<"G", "O">>)>>>>,
                         <<(<<"p", "y">>), << >>, <<(<<"p">>), <<"g", "o", "l">>>>>>,
                         <<(<<"p", "y">>), << >>, << >>>>}}

\* The URLs of the stories of a long response of the Hacker News search and
\* of the Dev.to API.
HitURLs == <<"u1", "u2", "u3", "u4", "u5", "u6", "u7", "u8", "u9", "u10", "u11", "u12", "u13">>
ArticleURLs == <<"d1", "d2", "d3", "d4", "d5", "d6", "d7", "d8", "d9", "d10", "d11", "d12", "d13">>

\* A response of the Hacker News search with k stories, all different, every
\* other one about Go.
HitRun(k) ==
    [i \in 1..k |-> [Title |-> IF i % 2 = 1 THEN <<"G", "o">> ELSE <<"p", "y">>,
                     URL |-> HitURLs[i]]]

\* A response of the Dev.to API with k articles, all different, every other
\* one tagged "go".
ArticleRun(k) ==
    [i \in 1..k |-> [Title |-> <<"d", "e", "v">>, URL |-> ArticleURLs[i],
                     Description |-> << >>,
                     TagList |-> IF i % 2 = 1 THEN <<(<<"G", "o">>)>> ELSE << >>]]

\* The sequences of at most n elements of S.
SeqsUpTo(S, n) == UNION {[1..k -> S] : k \in 0..n}

\* A ticker channel that holds no tick, and the ticker of a run() goroutine
\* that has returned.
NoTick == -1
Exited == -2

VARIABLES
    clock,      \* the wall clock read by time.Now()
    tasks,      \* Scheduler.tasks: map[string]*Task
    addOrder,   \* history: the names of tasks in the order AddTask first added them
    call,       \* history: the operation the last step performed, with its
                \* arguments, what it returned and what it found on entry
    plugins,    \* PluginRegistry.plugins: map[string]Plugin
    newsByType, \* PluginRegistry.newsByType: map[string][]NewsPlugin
    cleanups,   \* per plugin, the number of calls of its Cleanup
    regOrder,   \* history: the registered plugins in the order of registration
    ptasks,     \* PluginScheduler.tasks: map[string]*PluginTask (an index of theap)
    theap,      \* the PluginTask objects ever created, in the order of creation
    running,    \* PluginScheduler.running
    stopClosed, \* whether PluginScheduler.stopCh has been closed
    loopTick,   \* per run() goroutine, what its ticker channel holds
    execs,      \* the executeTask goroutines that have not returned
    crashed,    \* whether a panic or a fatal error has ended the process
    fired,      \* history: per task ID, the number of executions started
    iter,       \* per run() goroutine inside the loop of checkAndExecuteTasks:
                \* the tick's time, the keys still to visit, the keys at its start
    apiKey,     \* WeatherPlugin.apiKey
    weatherLast,\* WeatherPlugin.lastData: << >> for nil, else <<data>>
    currentTag, \* HackerNewsPlugin's BaseNewsPlugin.currentTag
    newsLast,   \* HackerNewsPlugin's BaseNewsPlugin.lastData
    devTag,     \* DevToPlugin's BaseNewsPlugin.currentTag
    devLast,    \* DevToPlugin's BaseNewsPlugin.lastData
    aggTag,     \* AggregateNewsPlugin's BaseNewsPlugin.currentTag
    aggLast,    \* AggregateNewsPlugin's BaseNewsPlugin.lastData
    origin,     \* OSRMTrafficPlugin.origin
    destination,\* OSRMTrafficPlugin.destination
    initFailed, \* history: whether the Initialize of the traffic plugin at its
                \* registration returned an error
    NewsTags,   \* WidgetManager.NewsTags
    NewsTagIndex, \* WidgetManager.NewsTagIndex
    widgets,    \* Model.widgets: the tiles "news" (index 9) and "traffic"
                \* (index 10); << >> before initialModel has built them
    msgs,       \* the newsMsg messages that commands have sent and Update has
                \* not yet received
    pendingNews \* the running program's fetchNewsCmd messages: run (whether
                \* the program runs), cmds (those sent and not yet received),
                \* ticks (the tea.Tick timers that will send one)

timeVars == <<clock, loopTick>>
schedVars == <<tasks, addOrder>>
regVars == <<plugins, newsByType, cleanups, regOrder>>
dispVars == <<ptasks, theap, running, stopClosed, execs, crashed, iter, fired>>
aggVars == <<devTag, devLast, aggTag, aggLast>>
osrmVars == <<origin, destination, initFailed>>
fetchVars == <<apiKey, weatherLast, currentTag, newsLast, aggVars, osrmVars>>
uiVars == <<NewsTags, NewsTagIndex, widgets, msgs, pendingNews>>
mgrVars == <<regVars, dispVars, fetchVars>>
vars == <<clock, loopTick, call, schedVars, regVars, dispVars, fetchVars, uiVars>>

\* No operation has been called yet.
NoCall == [op |-> "none"]

\* ------------------------------------------------------------- helpers
\* All orders in which a range over a Go map may visit the keys in S.
Orders(S) == {o \in [1..Cardinality(S) -> S] : \A i, j \in 1..Cardinality(S) : i # j => o[i] # o[j]}

\* Mutant of MapDelete: the map is emptied.
MapDeleteAll(f, k) == << >>

\* f without the key k (delete(m, k)).
MapDelete(f, k) == [x \in (DOMAIN f) \ {k} |-> f[x]]

\* f with k bound to v (m[k] = v).
MapPut(f, k, v) == [x \in (DOMAIN f) \cup {k} |-> IF x = k THEN v ELSE f[x]]

\* s without its elements equal to e.
SeqWithout(s, e) == SelectSeq(s, LAMBDA x : x # e)

\* Mutant of Before: the comparison turned around.
BeforeTurned(a, b) == a > b

\* time.Time.Before
Before(a, b) == a < b

\* The ticker channels once d seconds have passed: a ticker fires every
\* second into a channel of capacity 1, and a tick that finds it full is dropped.
TickersAfter(d) ==
    [i \in DOMAIN loopTick |->
        IF loopTick[i] = NoTick /\ d >= 1 THEN clock + 1 ELSE loopTick[i]]

\* d seconds pass.
TimePasses(d) ==
    /\ clock + d <= MaxClock
    /\ clock' = clock + d
    /\ loopTick' = TickersAfter(d)

\* ------------------------------------------------- Scheduler (providers.go)
\* NewScheduler: an empty task map.
NewScheduler == << >>

\* The Task that AddTask builds: LastRun and NextRun come from two reads of the
\* clock, now1 and now2.
NewTask(id, interval, provider, now1, now2) ==
    [ID |-> id, Interval |-> interval, LastRun |-> now1,
     NextRun |-> now2 + interval, Provider |-> provider]

\* Mutant of AddTask: a name already in the map keeps its task.
AddTaskKeepsExisting(id, interval, provider) ==
    \E d \in Drifts :
        /\ TimePasses(d)
        /\ UNCHANGED <<mgrVars, uiVars>>
        /\ tasks' = IF id \in DOMAIN tasks THEN tasks
                    ELSE MapPut(tasks, id, NewTask(id, interval, provider, clock, clock + d))
        /\ addOrder' = IF id \in DOMAIN tasks THEN addOrder ELSE Append(addOrder, id)
        /\ call' = [op |-> "AddTask", id |-> id, interval |-> interval,
                    provider |-> provider, at |-> clock,
                    existed |-> id \in DOMAIN tasks,
                    count |-> Cardinality(DOMAIN tasks)]

\* Scheduler.AddTask: s.tasks[id] = &Task{...}; d is the time that passes
\* between the two time.Now() calls.
AddTask(id, interval, provider) ==
    \E d \in Drifts :
        /\ TimePasses(d)
        /\ UNCHANGED <<mgrVars, uiVars>>
        /\ tasks' = MapPut(tasks, id, NewTask(id, interval, provider, clock, clock + d))
        /\ addOrder' = IF id \in DOMAIN tasks THEN addOrder ELSE Append(addOrder, id)
        /\ call' = [op |-> "AddTask", id |-> id, interval |-> interval,
                    provider |-> provider, at |-> clock,
                    existed |-> id \in DOMAIN tasks,
                    count |-> Cardinality(DOMAIN tasks)]

\* The loop of GetNextTask over the keys in the order o, from position i with
\* the candidate next.
RECURSIVE GetNextTaskFrom(_, _, _)
GetNextTaskFrom(o, i, next) ==
    IF i > Len(o) THEN next
    ELSE IF next = NoTask \/ Before(tasks[o[i]].NextRun, tasks[next].NextRun)
         THEN GetNextTaskFrom(o, i + 1, o[i])
         ELSE GetNextTaskFrom(o, i + 1, next)

\* Scheduler.GetNextTask when the map is ranged over in the order o.
GetNextTaskIn(o) == GetNextTaskFrom(o, 1, NoTask)

\* Scheduler.GetNextTask: the range order of the map is not specified.
GetNextTask ==
    \E o \in Orders(DOMAIN tasks) :
        /\ call' = [op |-> "GetNextTask", ret |-> GetNextTaskIn(o)]
        /\ UNCHANGED <<timeVars, tasks, addOrder, mgrVars, uiVars>>

\* Mutant of GetNextWakeTimeIn: the default whatever the tasks.
GetNextWakeTimeInDefault(o, now) == now + Hour

\* What Scheduler.GetNextWakeTime returns at the time now when GetNextTask
\* ranges over the map in the order o.
GetNextWakeTimeIn(o, now) ==
    LET next == GetNextTaskIn(o)
    IN IF next = NoTask THEN now + Hour ELSE tasks[next].NextRun

\* Scheduler.GetNextWakeTime
GetNextWakeTime ==
    \E o \in Orders(DOMAIN tasks) :
        /\ call' = [op |-> "GetNextWakeTime", ret |-> GetNextWakeTimeIn(o, clock),
                    at |-> clock]
        /\ UNCHANGED <<timeVars, tasks, addOrder, mgrVars, uiVars>>

\* Scheduler.UpdateTask: LastRun and NextRun are set from two reads of the clock.
UpdateTask(id) ==
    \E d \in Drifts :
        /\ TimePasses(d)
        /\ tasks' = IF id \in DOMAIN tasks
                    THEN [tasks EXCEPT ![id].LastRun = clock,
                                       ![id].NextRun = clock + d + tasks[id].Interval]
                    ELSE tasks
        /\ call' = [op |-> "UpdateTask", id |-> id, at |-> clock,
                    existed |-> id \in DOMAIN tasks]
        /\ UNCHANGED <<addOrder, mgrVars, uiVars>>

\* Scheduler.RemoveTask: delete(s.tasks, id).
RemoveTask(id) ==
    /\ tasks' = MapDelete(tasks, id)
    /\ addOrder' = SeqWithout(addOrder, id)
    /\ call' = [op |-> "RemoveTask", id |-> id, before |-> tasks]
    /\ UNCHANGED <<timeVars, mgrVars, uiVars>>

\* A second passes.
Advance ==
    /\ ~crashed
    /\ TimePasses(1)
    /\ call' = [op |-> "Advance"]
    /\ UNCHANGED <<schedVars, uiVars, mgrVars>>

\* A second passes at the fixed tick of the end-to-end scenario: the ticker
\* fires every second up to LongInterval, and within the second run() has
\* taken the earlier tick and every executeTask goroutine it has started has
\* run up to its Fetch.
AdvanceTick ==
    /\ ~crashed
    /\ running
    /\ \A i \in DOMAIN loopTick : loopTick[i] = NoTick
    /\ \A g \in execs : g.pc # "go"
    /\ clock < LongInterval
    /\ clock' = clock + 1
    /\ loopTick' = TickersAfter(1)
    /\ call' = [op |-> "AdvanceTick"]
    /\ UNCHANGED <<schedVars, uiVars, mgrVars>>

\* ------------------------------------- PluginRegistry (example_plugins.go)
\* NewPluginRegistry: both maps empty (a missing key of newsByType reads as
\* the empty slice).
NewPluginRegistry ==
    [plugins |-> << >>, newsByType |-> [t \in PluginTypes |-> << >>]]

\* Mutant of RegisterPlugin: no check for an identity already registered.
RegisterPluginNoDupCheck(plugin) ==
    IF plugin = NilPlugin
    THEN [plugins |-> plugins, newsByType |-> newsByType, err |-> "plugin cannot be nil"]
    ELSE [plugins |-> MapPut(plugins, GetID(plugin), plugin),
          newsByType |-> IF IsNewsPlugin(plugin)
                         THEN [newsByType EXCEPT ![GetType(plugin)] = Append(@, plugin)]
                         ELSE newsByType,
          err |-> NoErr]

\* PluginRegistry.RegisterPlugin: the two maps after the call and the error
\* it returns.
RegisterPlugin(plugin) ==
    IF plugin = NilPlugin
    THEN [plugins |-> plugins, newsByType |-> newsByType, err |-> "plugin cannot be nil"]
    ELSE IF GetID(plugin) \in DOMAIN plugins
    THEN [plugins |-> plugins, newsByType |-> newsByType, err |-> "already registered"]
    ELSE [plugins |-> MapPut(plugins, GetID(plugin), plugin),
          newsByType |-> IF IsNewsPlugin(plugin)
                         THEN [newsByType EXCEPT ![GetType(plugin)] = Append(@, plugin)]
                         ELSE newsByType,
          err |-> NoErr]

\* PluginManager.RegisterPlugin: registers, then calls Initialize when the
\* configuration has an entry for the plugin; init is "no config", "ok" or
\* "error" (what Initialize returns).
ManagerRegisterPlugin(plugin, init) ==
    LET r == RegisterPlugin(plugin) IN
    /\ ~crashed
    /\ plugins' = r.plugins
    /\ newsByType' = r.newsByType
    /\ regOrder' = IF r.err = NoErr THEN Append(regOrder, plugin) ELSE regOrder
    /\ call' = [op |-> "RegisterPlugin", plugin |-> plugin,
                dup |-> plugin # NilPlugin /\ GetID(plugin) \in DOMAIN plugins,
                err |-> IF r.err # NoErr THEN r.err
                        ELSE IF init = "error" THEN "failed to initialize plugin"
                        ELSE NoErr,
                before |-> [plugins |-> plugins, newsByType |-> newsByType]]
    /\ UNCHANGED <<cleanups, timeVars, schedVars, uiVars, dispVars, fetchVars>>

\* Mutant of RemoveFirstWithID: the slice of the news registry is left as it is.
RemoveFirstWithIDKeepsAll(list, id) == list

\* The slice without its first plugin whose ID is id
\* (append(plugins[:i], plugins[i+1:]...) at the first match).
RemoveFirstWithID(list, id) ==
    LET at == {i \in 1..Len(list) : GetID(list[i]) = id}
    IN IF at = {} THEN list
       ELSE LET i == CHOOSE k \in at : \A j \in at : k <= j
            IN SubSeq(list, 1, i - 1) \o SubSeq(list, i + 1, Len(list))

\* The registry as an operation finds it on entry.
RegistryNow == [plugins |-> plugins, newsByType |-> newsByType, cleanups |-> cleanups]

\* Mutant of UnregisterPlugin: an ID that is not registered is not an error.
UnregisterPluginNoExistsCheck(id, cleanupFails) ==
    /\ ~crashed
    /\ IF id \notin DOMAIN plugins
       THEN /\ call' = [op |-> "UnregisterPlugin", id |-> id, existed |-> FALSE,
                        cleanupFails |-> FALSE, err |-> NoErr, before |-> RegistryNow]
            /\ UNCHANGED regVars
       ELSE LET plugin == plugins[id] IN
            /\ cleanups[plugin] < MaxCleanups
            /\ cleanups' = [cleanups EXCEPT ![plugin] = @ + 1]
            /\ plugins' = IF cleanupFails THEN plugins ELSE MapDelete(plugins, id)
            /\ newsByType' =
                  IF ~cleanupFails /\ IsNewsPlugin(plugin)
                  THEN [newsByType EXCEPT ![GetType(plugin)] = RemoveFirstWithID(@, id)]
                  ELSE newsByType
            /\ regOrder' = IF cleanupFails THEN regOrder ELSE SeqWithout(regOrder, plugin)
            /\ call' = [op |-> "UnregisterPlugin", id |-> id, existed |-> TRUE,
                        cleanupFails |-> cleanupFails,
                        err |-> IF cleanupFails THEN "error cleaning up plugin" ELSE NoErr,
                        before |-> RegistryNow]
    /\ UNCHANGED <<timeVars, schedVars, uiVars, dispVars, fetchVars>>

\* PluginRegistry.UnregisterPlugin; cleanupFails says whether the plugin's
\* Cleanup returns an error.
UnregisterPlugin(id, cleanupFails) ==
    /\ ~crashed
    /\ IF id \notin DOMAIN plugins
       THEN /\ call' = [op |-> "UnregisterPlugin", id |-> id, existed |-> FALSE,
                        cleanupFails |-> FALSE, err |-> "not found",
                        before |-> RegistryNow]
            /\ UNCHANGED regVars
       ELSE LET plugin == plugins[id] IN
            /\ cleanups[plugin] < MaxCleanups
            /\ cleanups' = [cleanups EXCEPT ![plugin] = @ + 1]
            /\ IF cleanupFails
               THEN /\ call' = [op |-> "UnregisterPlugin", id |-> id, existed |-> TRUE,
                                cleanupFails |-> TRUE, err |-> "error cleaning up plugin",
                                before |-> RegistryNow]
                    /\ UNCHANGED <<plugins, newsByType, regOrder>>
               ELSE /\ plugins' = MapDelete(plugins, id)
                    /\ newsByType' =
                          IF IsNewsPlugin(plugin)
                          THEN [newsByType EXCEPT
                                  ![GetType(plugin)] = RemoveFirstWithID(@, id)]
                          ELSE newsByType
                    /\ regOrder' = SeqWithout(regOrder, plugin)
                    /\ call' = [op |-> "UnregisterPlugin", id |-> id, existed |-> TRUE,
                                cleanupFails |-> FALSE, err |-> NoErr,
                                before |-> RegistryNow]
    /\ UNCHANGED <<timeVars, schedVars, uiVars, dispVars, fetchVars>>

\* The plugins that a range over pr.plugins in the order o of the keys
\* appends to the result of GetPluginsByType.
PluginsByTypeIn(o, pluginType) ==
    SelectSeq([i \in 1..Len(o) |-> plugins[o[i]]], LAMBDA p : GetType(p) = pluginType)

\* PluginRegistry.GetPluginsByType: the range order of the map is not specified.
GetPluginsByType(pluginType) ==
    \E o \in Orders(DOMAIN plugins) :
        /\ call' = [op |-> "GetPluginsByType", type |-> pluginType,
                    ret |-> PluginsByTypeIn(o, pluginType)]
        /\ UNCHANGED <<timeVars, schedVars, uiVars, mgrVars>>

\* ------------------------------------ PluginScheduler (example_plugins.go)
\* NewPluginScheduler: no task, not running, stopCh open.
NewPluginScheduler == [tasks |-> << >>, running |-> FALSE, stopClosed |-> FALSE]

\* Mutant of NewPluginTask: the task is due at once.
NewPluginTaskDueAtOnce(pluginID, plugin, interval, now1, now2) ==
    [ID |-> pluginID, Plugin |-> plugin, Interval |-> interval,
     LastRun |-> now1, NextRun |-> now2, Cancelled |-> FALSE]

\* The PluginTask that SchedulePlugin builds: LastRun and NextRun come from
\* two reads of the clock, now1 and now2.
NewPluginTask(pluginID, plugin, interval, now1, now2) ==
    [ID |-> pluginID, Plugin |-> plugin, Interval |-> interval,
     LastRun |-> now1, NextRun |-> now2 + interval, Cancelled |-> FALSE]

\* PluginScheduler.AddTask: ps.tasks[task.ID] = task (ref is the task's place
\* in theap).
PluginSchedulerAddTask(id, ref) == MapPut(ptasks, id, ref)

\* PluginManager.SchedulePlugin; d is the time that passes between its two
\* time.Now() calls.
SchedulePlugin(pluginID, interval) ==
    /\ ~crashed
    /\ IF pluginID \notin DOMAIN plugins
       THEN /\ call' = [op |-> "SchedulePlugin", id |-> pluginID, err |-> "not found"]
            /\ UNCHANGED <<timeVars, ptasks, theap>>
       ELSE \E d \in Drifts :
            /\ Len(theap) < MaxHeap
            /\ TimePasses(d)
            /\ theap' = Append(theap, NewPluginTask(pluginID, plugins[pluginID],
                                                    interval, clock, clock + d))
            /\ ptasks' = PluginSchedulerAddTask(pluginID, Len(theap) + 1)
            /\ call' = [op |-> "SchedulePlugin", id |-> pluginID, err |-> NoErr]
    /\ UNCHANGED <<schedVars, uiVars, regVars, fetchVars, running, stopClosed, execs, crashed, iter, fired>>

\* PluginScheduler.RemoveTask: cancels the task's context and deletes the task.
PluginSchedulerRemoveTask(taskID) ==
    /\ ~crashed
    /\ IF taskID \in DOMAIN ptasks
       THEN /\ theap' = [theap EXCEPT ![ptasks[taskID]].Cancelled = TRUE]
            /\ ptasks' = MapDelete(ptasks, taskID)
       ELSE UNCHANGED <<ptasks, theap>>
    /\ call' = [op |-> "PluginSchedulerRemoveTask", id |-> taskID,
                existed |-> taskID \in DOMAIN ptasks]
    /\ UNCHANGED <<timeVars, schedVars, uiVars, regVars, fetchVars, running, stopClosed, execs, crashed, iter, fired>>

\* PluginScheduler.Start: returns when running, else sets running and starts
\* a run() goroutine, whose new ticker has not fired.
Start ==
    /\ ~crashed
    /\ IF running
       THEN UNCHANGED <<running, loopTick>>
       ELSE /\ Len(loopTick) < MaxLoops
            /\ running' = TRUE
            /\ loopTick' = Append(loopTick, NoTick)
    /\ call' = [op |-> "Start"]
    /\ UNCHANGED <<clock, schedVars, uiVars, regVars, fetchVars, ptasks, theap, stopClosed, execs, crashed, iter, fired>>

\* PluginScheduler.Stop: returns when not running, else closes stopCh (a panic
\* when it is closed already), clears running and cancels every task.
PluginSchedulerStop ==
    /\ ~crashed
    /\ IF ~running
       THEN UNCHANGED <<running, stopClosed, theap, crashed>>
       ELSE IF stopClosed
       THEN /\ crashed' = TRUE
            /\ UNCHANGED <<running, stopClosed, theap>>
       ELSE /\ stopClosed' = TRUE
            /\ running' = FALSE
            /\ theap' = [i \in DOMAIN theap |->
                           IF \E id \in DOMAIN ptasks : ptasks[id] = i
                           THEN [theap[i] EXCEPT !.Cancelled = TRUE]
                           ELSE theap[i]]
            /\ UNCHANGED crashed
    /\ UNCHANGED <<timeVars, schedVars, uiVars, fetchVars, ptasks, execs, iter, fired>>

\* PluginScheduler.Stop, called on the scheduler.
Stop ==
    /\ PluginSchedulerStop
    /\ call' = [op |-> "Stop"]
    /\ UNCHANGED regVars

\* PluginManager.Cleanup: stops the scheduler, then calls Cleanup of every
\* plugin of the registry (an error of a Cleanup is printed) and returns nil.
ManagerCleanup ==
    /\ \A id \in DOMAIN plugins : cleanups[plugins[id]] < MaxCleanups
    /\ PluginSchedulerStop
    /\ cleanups' = IF crashed' THEN cleanups
                   ELSE [q \in PluginObjs |->
                           IF \E id \in DOMAIN plugins : plugins[id] = q
                           THEN cleanups[q] + 1 ELSE cleanups[q]]
    /\ call' = [op |-> "ManagerCleanup", wasRunning |-> running,
                before |-> RegistryNow]
    /\ UNCHANGED <<plugins, newsByType, regOrder>>

\* Mutant of Due: without now.Equal(task.NextRun).
DueStrictlyAfter(task, now) == now > task.NextRun

\* Whether a task is due at now: now.After(task.NextRun) || now.Equal(task.NextRun).
Due(task, now) == now > task.NextRun \/ now = task.NextRun

\* PluginScheduler.checkAndExecuteTasks(now) in the run() goroutine loop: the
\* goroutines it starts, one per due task.
checkAndExecuteTasks(loop, now) ==
    {[loop |-> loop, task |-> ptasks[id], now |-> now, pc |-> "go"] :
        id \in {x \in DOMAIN ptasks : Due(theap[ptasks[x]], now)}}

\* Mutant of LoopAwaits: executeTask called without `go`, the loop waits for it.
LoopAwaitsExecution(loop) == \E g \in execs : g.loop = loop

\* Whether the run() goroutine is held inside an execution it has started:
\* never, checkAndExecuteTasks starts executeTask with `go` and goes on.
LoopAwaits(loop) == FALSE

\* PluginScheduler.run, case now := <-ticker.C of the select.
RunTick(loop) ==
    /\ ~crashed
    /\ ~LoopAwaits(loop)
    /\ loopTick[loop] >= 0
    /\ execs' = execs \cup checkAndExecuteTasks(loop, loopTick[loop])
    /\ fired' = [id \in DOMAIN fired |->
                   IF id \in DOMAIN ptasks /\ Due(theap[ptasks[id]], loopTick[loop])
                   THEN fired[id] + 1 ELSE fired[id]]
    /\ loopTick' = [loopTick EXCEPT ![loop] = NoTick]
    /\ call' = [op |-> "RunTick", now |-> loopTick[loop]]
    /\ UNCHANGED <<clock, schedVars, uiVars, regVars, fetchVars, ptasks, theap, running, stopClosed, crashed, iter>>

\* PluginScheduler.run, case now := <-ticker.C of the select, up to the start
\* of the loop of checkAndExecuteTasks: the range will visit the keys of
\* ps.tasks in some order.
RunTickBegin(loop) ==
    /\ ~crashed
    /\ ~LoopAwaits(loop)
    /\ loop \notin DOMAIN iter
    /\ loopTick[loop] >= 0
    /\ \E o \in Orders(DOMAIN ptasks) :
          iter' = MapPut(iter, loop, [now |-> loopTick[loop], todo |-> o,
                                     keys |-> DOMAIN ptasks])
    /\ loopTick' = [loopTick EXCEPT ![loop] = NoTick]
    /\ call' = [op |-> "RunTickBegin", now |-> loopTick[loop]]
    /\ UNCHANGED <<clock, schedVars, uiVars, regVars, fetchVars, ptasks, theap, running, stopClosed,
                   execs, crashed, fired>>

\* One pass of the loop of checkAndExecuteTasks: the task of the next key is
\* started when it is due (a key deleted since the start of the range is not
\* produced).  When ps.tasks has been written since the start of the range,
\* the runtime may also end the process (fatal error: concurrent map
\* iteration and map write).
RunTickVisit(loop) ==
    /\ ~crashed
    /\ loop \in DOMAIN iter
    /\ iter[loop].todo # << >>
    /\ LET id == Head(iter[loop].todo)
           now == iter[loop].now
       IN \/ /\ execs' = IF id \in DOMAIN ptasks /\ Due(theap[ptasks[id]], now)
                          THEN execs \cup {[loop |-> loop, task |-> ptasks[id],
                                            now |-> now, pc |-> "go"]}
                          ELSE execs
             /\ fired' = IF id \in DOMAIN ptasks /\ Due(theap[ptasks[id]], now)
                          THEN [fired EXCEPT ![id] = @ + 1] ELSE fired
             /\ iter' = [iter EXCEPT ![loop].todo = Tail(@)]
             /\ UNCHANGED crashed
          \/ /\ DOMAIN ptasks # iter[loop].keys
             /\ crashed' = TRUE
             /\ UNCHANGED <<execs, iter, fired>>
    /\ call' = [op |-> "RunTickVisit"]
    /\ UNCHANGED <<timeVars, schedVars, uiVars, regVars, fetchVars, ptasks, theap, running, stopClosed>>

\* The end of the loop of checkAndExecuteTasks: run() goes back to its select
\* (a key created since the start of the range may have been skipped).
RunTickEnd(loop) ==
    /\ ~crashed
    /\ loop \in DOMAIN iter
    /\ iter[loop].todo = << >>
    /\ iter' = MapDelete(iter, loop)
    /\ call' = [op |-> "RunTickEnd"]
    /\ UNCHANGED <<timeVars, schedVars, uiVars, regVars, fetchVars, ptasks, theap, running, stopClosed,
                   execs, crashed, fired>>

\* PluginScheduler.run, case <-ps.stopCh of the select: the goroutine returns
\* and its ticker is stopped.
RunStop(loop) ==
    /\ ~crashed
    /\ loopTick[loop] # Exited
    /\ stopClosed
    /\ loopTick' = [loopTick EXCEPT ![loop] = Exited]
    /\ call' = [op |-> "RunStop"]
    /\ UNCHANGED <<clock, schedVars, uiVars, regVars, fetchVars, ptasks, theap, running, stopClosed, execs, crashed, iter, fired>>

\* Mutant of ExecUpdateTiming: the next run is set to now, without the interval.
ExecUpdateTimingNoInterval(g) ==
    /\ ~crashed
    /\ g.pc = "go"
    /\ theap' = [theap EXCEPT ![g.task].LastRun = g.now,
                              ![g.task].NextRun = g.now]
    /\ execs' = (execs \ {g}) \cup {[g EXCEPT !.pc = "fetch"]}
    /\ call' = [op |-> "ExecUpdateTiming", task |-> g.task,
                prevNextRun |-> theap[g.task].NextRun]
    /\ UNCHANGED <<timeVars, schedVars, uiVars, regVars, fetchVars, ptasks, running, stopClosed, crashed, iter, fired>>

\* executeTask up to the call of Fetch: task.LastRun = now and
\* task.NextRun = now.Add(task.Interval), then task.Plugin.Fetch begins.
ExecUpdateTiming(g) ==
    /\ ~crashed
    /\ g.pc = "go"
    /\ theap' = [theap EXCEPT ![g.task].LastRun = g.now,
                              ![g.task].NextRun = g.now + theap[g.task].Interval]
    /\ execs' = (execs \ {g}) \cup {[g EXCEPT !.pc = "fetch"]}
    /\ call' = [op |-> "ExecUpdateTiming", task |-> g.task,
                prevNextRun |-> theap[g.task].NextRun]
    /\ UNCHANGED <<timeVars, schedVars, uiVars, regVars, fetchVars, ptasks, running, stopClosed, crashed, iter, fired>>

\* Mutant of PanicEscapes: executeTask without its deferred recover.
PanicEscapesNoRecover(outcome) == outcome = "panic"

\* Whether the outcome of Fetch ends the process: executeTask's deferred
\* function recovers a panic, and an error is only printed.
PanicEscapes(outcome) == FALSE

\* executeTask: task.Plugin.Fetch returns (outcome "ok" or "error") or panics
\* (outcome "panic"), and the goroutine ends.
ExecFetchReturn(g, outcome) ==
    /\ ~crashed
    /\ g.pc = "fetch"
    /\ execs' = execs \ {g}
    /\ crashed' = PanicEscapes(outcome)
    /\ call' = [op |-> "ExecFetchReturn", task |-> g.task, outcome |-> outcome,
                now |-> g.now, others |-> execs \ {g},
                before |-> [plugins |-> plugins, newsByType |-> newsByType,
                            ptasks |-> ptasks, theap |-> theap,
                            loopTick |-> loopTick, running |-> running]]
    /\ UNCHANGED <<timeVars, schedVars, uiVars, regVars, fetchVars, ptasks, theap, running, stopClosed, iter, fired>>


\* ----------------------------------------- WeatherPlugin (weather_plugins.go)
\* The demo data that Fetch returns without an API key or for a response
\* whose temperature is 0.
MockWeather == [Temperature |-> 30, Condition |-> "Clouds", Icon |-> "clouds"]

\* getWeatherIcon (providers.go), with the icons by name.
getWeatherIcon(id) ==
    CASE id >= 200 /\ id < 300 -> "thunder"
      [] id >= 300 /\ id < 400 -> "rain"
      [] id >= 500 /\ id < 600 -> "rain"
      [] id >= 600 /\ id < 700 -> "snow"
      [] id >= 700 /\ id < 800 -> "fog"
      [] id = 800 -> "sun"
      [] id >= 801 /\ id < 900 -> "clouds"
      [] OTHER -> "clouds"

\* WeatherPlugin.Initialize: the api_key of the configuration, when it has one
\* (key is << >> when it has none, else <<the key>>).
WeatherInitialize(key) ==
    /\ apiKey' = IF key = << >> THEN apiKey ELSE key[1]
    /\ call' = [op |-> "WeatherInitialize"]
    /\ UNCHANGED <<timeVars, schedVars, uiVars, regVars, dispVars, osrmVars, weatherLast, currentTag, newsLast, aggVars>>

\* WeatherPlugin.Fetch: what it returns (data, err) and lastData after it.
\* fail names the step that fails ("request", "do", "read", "json") or is
\* "none"; resp is the decoded response.
WeatherFetchResult(fail, resp) ==
    IF apiKey = "" \/ apiKey = DefaultAPIKey
    THEN [data |-> <<MockWeather>>, err |-> NoErr, lastData |-> weatherLast]
    ELSE IF fail # "none"
    THEN [data |-> weatherLast, err |-> fail, lastData |-> weatherLast]
    ELSE IF resp.Temp = 0
    THEN [data |-> <<MockWeather>>, err |-> NoErr, lastData |-> weatherLast]
    ELSE LET data == [Temperature |-> resp.Temp,
                      Condition |-> IF Len(resp.Weather) > 0 THEN resp.Weather[1].Main
                                    ELSE "Clouds",
                      Icon |-> IF Len(resp.Weather) > 0
                               THEN getWeatherIcon(resp.Weather[1].ID)
                               ELSE "clouds"]
         IN [data |-> <<data>>, err |-> NoErr, lastData |-> <<data>>]

\* WeatherPlugin.Fetch
WeatherFetch(fail, resp) ==
    LET r == WeatherFetchResult(fail, resp) IN
    /\ weatherLast' = r.lastData
    /\ call' = [op |-> "WeatherFetch", err |-> r.err, data |-> r.data,
                before |-> weatherLast]
    /\ UNCHANGED <<timeVars, schedVars, uiVars, regVars, dispVars, osrmVars, apiKey, currentTag, newsLast, aggVars>>

\* ------------------------------------------------ news plugins (part_002)
\* Strings that are searched are sequences of characters.
LowerChar(c) ==
    CASE c = "G" -> "g" [] c = "O" -> "o" [] c = "P" -> "p" [] c = "A" -> "a" [] OTHER -> c

\* strings.ToLower
ToLower(str) == [i \in DOMAIN str |-> LowerChar(str[i])]

\* strings.Contains
Contains(str, sub) ==
    \E i \in 0..(Len(str) - Len(sub)) : SubSeq(str, i + 1, i + Len(sub)) = sub

TagAll == <<"a", "l", "l">>
TagGo == <<"g", "o">>
EmptyString == << >>

\* Mutant of ItemMatches: a tag of the item matches when it contains the tag.
ItemMatchesTagsContain(item, tag) ==
    LET tagLower == ToLower(tag) IN
    \/ Contains(ToLower(item.Title), tagLower)
    \/ Contains(ToLower(item.Description), tagLower)
    \/ \E i \in 1..Len(item.Tags) : Contains(ToLower(item.Tags[i]), tagLower)

\* Whether filterByCurrentTag keeps the item under the tag.
ItemMatches(item, tag) ==
    LET tagLower == ToLower(tag) IN
    \/ Contains(ToLower(item.Title), tagLower)
    \/ Contains(ToLower(item.Description), tagLower)
    \/ \E i \in 1..Len(item.Tags) : ToLower(item.Tags[i]) = tagLower

\* BaseNewsPlugin.filterByCurrentTag with currentTag = tag.
filterByCurrentTag(tag, items) ==
    IF tag = TagAll \/ tag = EmptyString THEN items
    ELSE SelectSeq(items, LAMBDA item : ItemMatches(item, tag))

\* A call of filterByCurrentTag(items) on the Hacker News plugin.
FilterByCurrentTag(items) ==
    /\ call' = [op |-> "filterByCurrentTag", tag |-> currentTag, items |-> items,
                ret |-> filterByCurrentTag(currentTag, items)]
    /\ UNCHANGED <<timeVars, schedVars, uiVars, regVars, dispVars, fetchVars>>

\* BaseNewsPlugin.SetCurrentTag
SetCurrentTag(tag) ==
    /\ currentTag' = tag
    /\ call' = [op |-> "SetCurrentTag"]
    /\ UNCHANGED <<timeVars, schedVars, uiVars, regVars, dispVars, osrmVars, apiKey, weatherLast, newsLast, aggVars>>

\* HackerNewsPlugin.Fetch: the items built from the hits, without the hits
\* that have no URL or no title.
RECURSIVE HackerNewsItems(_)
HackerNewsItems(hits) ==
    IF hits = << >> THEN << >>
    ELSE IF Head(hits).URL = "" \/ Head(hits).Title = EmptyString
    THEN HackerNewsItems(Tail(hits))
    ELSE <<[Title |-> Head(hits).Title, URL |-> Head(hits).URL,
            Description |-> EmptyString, Tags |-> << >>, Source |-> "hackernews"]>>
         \o HackerNewsItems(Tail(hits))

\* Mutant of Limit: the slice is never cut.
LimitNever(list, n) == list

\* The first n elements of the slice (list[:n]) when it has more.
Limit(list, n) == IF Len(list) > n THEN SubSeq(list, 1, n) ELSE list

\* Mutant of HackerNewsFetchResult: a failed request stores the empty list.
HackerNewsFetchResultClearsOnError(fail, hits) ==
    IF fail # "none"
    THEN [data |-> << >>, err |-> fail, lastData |-> << >>]
    ELSE LET filtered == Limit(filterByCurrentTag(currentTag, HackerNewsItems(hits)),
                               HackerNewsLimit)
         IN [data |-> filtered, err |-> NoErr, lastData |-> filtered]

\* HackerNewsPlugin.Fetch of a plugin whose currentTag is tag and whose
\* lastData is last: what it returns (data, err) and lastData after it.
HackerNewsFetchOf(tag, last, fail, hits) ==
    IF fail # "none"
    THEN [data |-> last, err |-> fail, lastData |-> last]
    ELSE LET filtered == Limit(filterByCurrentTag(tag, HackerNewsItems(hits)),
                               HackerNewsLimit)
         IN [data |-> filtered, err |-> NoErr, lastData |-> filtered]

\* HackerNewsPlugin.Fetch: what it returns (data, err) and lastData after it.
HackerNewsFetchResult(fail, hits) == HackerNewsFetchOf(currentTag, newsLast, fail, hits)

\* HackerNewsPlugin.Fetch
HackerNewsFetch(fail, hits) ==
    LET r == HackerNewsFetchResult(fail, hits) IN
    /\ newsLast' = r.lastData
    /\ call' = [op |-> "HackerNewsFetch", err |-> r.err, data |-> r.data,
                before |-> newsLast]
    /\ UNCHANGED <<timeVars, schedVars, uiVars, regVars, dispVars, osrmVars, apiKey, weatherLast, currentTag, aggVars>>

\* DevToPlugin.Fetch: the items built from the articles, without the articles
\* that have no URL or no title.
RECURSIVE DevToItems(_)
DevToItems(articles) ==
    IF articles = << >> THEN << >>
    ELSE IF Head(articles).URL = "" \/ Head(articles).Title = EmptyString
    THEN DevToItems(Tail(articles))
    ELSE <<[Title |-> Head(articles).Title, URL |-> Head(articles).URL,
            Description |-> Head(articles).Description,
            Tags |-> Head(articles).TagList, Source |-> "devto"]>>
         \o DevToItems(Tail(articles))

\* DevToPlugin.Fetch of a plugin whose currentTag is tag and whose lastData is
\* last: what it returns (data, err) and lastData after it.
DevToFetchOf(tag, last, fail, articles) ==
    IF fail # "none"
    THEN [data |-> last, err |-> fail, lastData |-> last]
    ELSE LET filtered == Limit(filterByCurrentTag(tag, DevToItems(articles)), DevToLimit)
         IN [data |-> filtered, err |-> NoErr, lastData |-> filtered]

\* Mutant of AllItems: the items of the second source come first.
AllItemsSecondFirst(children) ==
    (IF children[2].err = NoErr THEN children[2].data ELSE << >>)
        \o (IF children[1].err = NoErr THEN children[1].data ELSE << >>)

\* AggregateNewsPlugin.Fetch: the items of the sources whose Fetch returned
\* no error, in the order of the sources (children are the results of the
\* sources' Fetch).
AllItems(children) ==
    (IF children[1].err = NoErr THEN children[1].data ELSE << >>)
        \o (IF children[2].err = NoErr THEN children[2].data ELSE << >>)

\* Mutant of SourceTags: the loop without source.SetCurrentTag(an.currentTag).
SourceTagsLeftAlone == <<currentTag, devTag>>

\* The currentTag of the two sources of the aggregate, the Hacker News plugin
\* and the Dev.to plugin, when the loop of the aggregate's Fetch calls their
\* Fetch: source.SetCurrentTag(an.currentTag) comes right before.
SourceTags == <<aggTag, aggTag>>

\* The results of the Fetch of the two sources of the aggregate in the loop
\* of its Fetch.
SourcesFetch(failHN, hits, failDev, articles) ==
    <<HackerNewsFetchOf(SourceTags[1], newsLast, failHN, hits),
      DevToFetchOf(SourceTags[2], devLast, failDev, articles)>>

\* Mutant of AggregateFetchResult: the data returned with an error is kept.
AggregateFetchResultKeepsFailedData(children) ==
    LET allItems == children[1].data \o children[2].data IN
    IF Len(allItems) = 0 /\ Len(aggLast) > 0
    THEN [data |-> aggLast, err |-> NoErr, lastData |-> aggLast]
    ELSE LET filtered == Limit(filterByCurrentTag(aggTag, allItems), AggregateLimit)
         IN [data |-> filtered, err |-> NoErr, lastData |-> filtered]

\* Mutant of AggregateFetchResult: no return of the cached data.
AggregateFetchResultNoCache(children) ==
    LET filtered == Limit(filterByCurrentTag(aggTag, AllItems(children)), AggregateLimit)
    IN [data |-> filtered, err |-> NoErr, lastData |-> filtered]

\* AggregateNewsPlugin.Fetch after the loop over the sources: what it returns
\* (data, err) and lastData after it.
AggregateFetchResult(children) ==
    LET allItems == AllItems(children) IN
    IF Len(allItems) = 0 /\ Len(aggLast) > 0
    THEN [data |-> aggLast, err |-> NoErr, lastData |-> aggLast]
    ELSE LET filtered == Limit(filterByCurrentTag(aggTag, allItems), AggregateLimit)
         IN [data |-> filtered, err |-> NoErr, lastData |-> filtered]

\* AggregateNewsPlugin.Fetch: for each source SetCurrentTag(an.currentTag) and
\* Fetch, then the result.
AggregateFetch(failHN, hits, failDev, articles) ==
    LET children == SourcesFetch(failHN, hits, failDev, articles)
        r == AggregateFetchResult(children)
    IN /\ currentTag' = SourceTags[1]
       /\ devTag' = SourceTags[2]
       /\ newsLast' = children[1].lastData
       /\ devLast' = children[2].lastData
       /\ aggLast' = r.lastData
       /\ call' = [op |-> "AggregateFetch", tag |-> aggTag, children |-> children,
                   data |-> r.data, err |-> r.err, before |-> aggLast,
                   sourceTags |-> SourceTags,
                   tagsBefore |-> <<currentTag, devTag>>]
       /\ UNCHANGED <<timeVars, schedVars, uiVars, regVars, dispVars, osrmVars, apiKey, weatherLast, aggTag>>

\* BaseNewsPlugin.SetCurrentTag, called on the Dev.to plugin.
DevToSetCurrentTag(tag) ==
    /\ devTag' = tag
    /\ call' = [op |-> "DevToSetCurrentTag"]
    /\ UNCHANGED <<timeVars, schedVars, uiVars, regVars, dispVars, osrmVars, apiKey, weatherLast,
                   currentTag, newsLast, devLast, aggTag, aggLast>>

\* AggregateNewsPlugin.SetCurrentTag: the tag of the aggregate and of its sources.
AggregateSetCurrentTag(tag) ==
    /\ aggTag' = tag
    /\ currentTag' = tag
    /\ devTag' = tag
    /\ call' = [op |-> "AggregateSetCurrentTag"]
    /\ UNCHANGED <<timeVars, schedVars, uiVars, regVars, dispVars, osrmVars, apiKey, weatherLast,
                   newsLast, devLast, aggLast>>

\* ------------------------------- OSRMTrafficPlugin (osrm_traffic_plugins.go)
\* The zero LocationConfig.
NoLocation == [Address |-> "", Latitude |-> 0, Longitude |-> 0]

\* NewOSRMTrafficPlugin: origin and destination are zero.
NewOSRMTrafficPlugin == [origin |-> NoLocation, destination |-> NoLocation]

\* What the configuration of the traffic plugin can hold under "origin" or
\* "destination": nothing, a value that is neither a string nor a map (a nil
\* among them), an address, or a map with an address, a latitude and a
\* longitude (each possibly zero).
CfgLocations ==
    {[kind |-> "absent"], [kind |-> "invalid"], [kind |-> "string", address |-> "E"]}
    \cup {[kind |-> "map", address |-> a, latitude |-> la, longitude |-> lo] :
             a \in {"", "E"}, la \in {0, 12}, lo \in {0, 77}}

\* OSRMTrafficPlugin.parseLocationConfig: the location after the call and the
\* error it returns.
parseLocationConfig(cfg, location) ==
    CASE cfg.kind = "absent" -> [location |-> location, err |-> "missing in config"]
      [] cfg.kind = "invalid" ->
            [location |-> location, err |-> "must be string or object"]
      [] cfg.kind = "string" ->
            [location |-> [location EXCEPT !.Address = cfg.address], err |-> NoErr]
      [] cfg.kind = "map" ->
            LET l == [Address |-> cfg.address, Latitude |-> cfg.latitude,
                      Longitude |-> cfg.longitude]
                hasCoords == l.Latitude # 0 /\ l.Longitude # 0
                hasAddress == l.Address # ""
            IN [location |-> l,
                err |-> IF ~hasCoords /\ ~hasAddress
                        THEN "must have either address or latitude+longitude"
                        ELSE NoErr]

\* OSRMTrafficPlugin.Initialize: origin and destination after the call and
\* the error it returns.
OSRMInitialize(cfgOrigin, cfgDestination) ==
    LET o == parseLocationConfig(cfgOrigin, origin)
        d == parseLocationConfig(cfgDestination, destination)
    IN IF o.err # NoErr
       THEN [origin |-> o.location, destination |-> destination, err |-> o.err]
       ELSE [origin |-> o.location, destination |-> d.location, err |-> d.err]

\* PluginManager.RegisterPlugin(trafficPlugin) with the configuration that
\* initialModel gives the manager, which has an entry for the plugin:
\* registers, then calls Initialize.
ManagerRegisterOSRM(cfgOrigin, cfgDestination) ==
    LET r == RegisterPlugin("osrm")
        i == OSRMInitialize(cfgOrigin, cfgDestination)
    IN /\ ~crashed
       /\ plugins' = r.plugins
       /\ newsByType' = r.newsByType
       /\ regOrder' = IF r.err = NoErr THEN Append(regOrder, "osrm") ELSE regOrder
       /\ origin' = IF r.err = NoErr THEN i.origin ELSE origin
       /\ destination' = IF r.err = NoErr THEN i.destination ELSE destination
       /\ initFailed' = IF r.err = NoErr THEN i.err # NoErr ELSE initFailed
       /\ call' = [op |-> "RegisterPlugin", plugin |-> "osrm",
                   dup |-> "osrm_traffic" \in DOMAIN plugins,
                   err |-> IF r.err # NoErr THEN r.err
                           ELSE IF i.err # NoErr THEN "failed to initialize plugin"
                           ELSE NoErr,
                   before |-> [plugins |-> plugins, newsByType |-> newsByType]]
       /\ UNCHANGED <<cleanups, timeVars, schedVars, uiVars, dispVars, apiKey, weatherLast,
                      currentTag, newsLast, aggVars>>

\* OSRMTrafficPlugin.getLocationCoordinates: the error it returns and whether
\* it has made a request (geocodeLocation); geo is the outcome of the request.
getLocationCoordinates(location, geo) ==
    IF location.Latitude # 0 /\ location.Longitude # 0
    THEN [err |-> NoErr, io |-> FALSE]
    ELSE IF location.Address # ""
    THEN [err |-> IF geo = "ok" THEN NoErr ELSE "location not found", io |-> TRUE]
    ELSE [err |-> "location has neither coordinates nor address", io |-> FALSE]

\* OSRMTrafficPlugin.Fetch: what it returns (data, err) and whether it has made
\* a request; geoO, geoD, routeOD and routeDO are the outcomes ("ok" or
\* "error") of the requests it makes.
OSRMFetchResult(geoO, geoD, routeOD, routeDO) ==
    LET o == getLocationCoordinates(origin, geoO)
        d == getLocationCoordinates(destination, geoD)
    IN IF o.err # NoErr
       THEN [data |-> << >>, err |-> "failed to get origin coordinates", io |-> o.io]
       ELSE IF d.err # NoErr
       THEN [data |-> << >>, err |-> "failed to get destination coordinates",
             io |-> o.io \/ d.io]
       ELSE IF routeOD # "ok"
       THEN [data |-> << >>, err |-> "failed to get origin->destination route", io |-> TRUE]
       ELSE IF routeDO # "ok"
       THEN [data |-> << >>, err |-> "failed to get destination->origin route", io |-> TRUE]
       ELSE [data |-> <<[Status |-> "OK"]>>, err |-> NoErr, io |-> TRUE]

\* OSRMTrafficPlugin.Fetch
OSRMFetch(geoO, geoD, routeOD, routeDO) ==
    LET r == OSRMFetchResult(geoO, geoD, routeOD, routeDO) IN
    /\ call' = [op |-> "OSRMFetch", fetched |-> TRUE, err |-> r.err, io |-> r.io,
                data |-> r.data]
    /\ UNCHANGED <<timeVars, schedVars, uiVars, mgrVars>>

\* ------------------------------------------------ WidgetManager (part_006)
\* NewWidgetManager: no tags, the index at 0.
NewWidgetManager == [NewsTags |-> << >>, NewsTagIndex |-> 0]

\* The tag that GetCurrentNewsTag returns for no filter.
All == <<"A", "l", "l">>

\* The tags of InitializeWidgets when the configuration has none.
DefaultNewsTags == <<(<<"g", "o", "l", "a", "n", "g">>),
                     <<"s", "e", "c", "u", "r", "i", "t", "y">>, <<"a", "i">>>>

\* The tags that a configuration can list.
ConfigTags == {<<"g", "o">>, <<"P", "y">>}

\* Mutant of CycleNewsTag: the index wraps at the number of tags.
CycleNewsTagWrapsEarly(index, tags) ==
    IF Len(tags) > 0 THEN (index + 1) % Len(tags) ELSE index

\* WidgetManager.CycleNewsTag: the index after the call.
CycleNewsTag(index, tags) ==
    IF Len(tags) > 0 THEN (index + 1) % (Len(tags) + 1) ELSE index

\* WidgetManager.GetCurrentNewsTag
GetCurrentNewsTag(index, tags) ==
    IF index = 0 THEN All
    ELSE IF index <= Len(tags) THEN tags[index]
    ELSE All

\* --------------------------------------------- the user interface (part_004)
\* NewWidgetTile: one item "Loading...", the count 0.
NewWidgetTile(title) ==
    [title |-> title, count |-> 0, hasError |-> FALSE,
     list |-> <<[ItemTitle |-> "Loading...", Subtitle |-> "", Status |-> "", URL |-> ""]>>]

\* WidgetTile.UpdateItems: the tile with the list built from items.
UpdateItems(wt, items) ==
    [wt EXCEPT
       !.list = IF Len(items) = 0
                THEN <<[ItemTitle |-> "No items available", Subtitle |-> "",
                        Status |-> "", URL |-> ""]>>
                ELSE [i \in 1..Len(items) |->
                        [ItemTitle |-> items[i].Title, Subtitle |-> items[i].Subtitle,
                         Status |-> items[i].Status, URL |-> items[i].URL]],
       !.count = Len(items)]

\* The item of the news widget that InitializeWidgets creates.
LoadingNews ==
    [Title |-> "Loading news...", Subtitle |-> "Fetching from HN & Dev.to",
     Status |-> "", URL |-> ""]

\* initialModel: NewWidgetManager and InitializeWidgets(cfg), which takes the
\* tags of the configuration or the default tags, then the tiles: the news
\* tile is filled from the widget of InitializeWidgets, which creates no
\* traffic widget.
InitialModel(cfgTags) ==
    /\ widgets = << >>
    /\ NewsTags' = IF Len(cfgTags) > 0 THEN cfgTags ELSE DefaultNewsTags
    /\ NewsTagIndex' = NewWidgetManager.NewsTagIndex
    /\ widgets' = [w \in {"news", "traffic"} |->
                     IF w = "news"
                     THEN UpdateItems(NewWidgetTile(<<"Tech News">>), <<LoadingNews>>)
                     ELSE NewWidgetTile(<<"Traffic">>)]
    /\ call' = [op |-> "initialModel"]
    /\ UNCHANGED <<timeVars, schedVars, mgrVars, msgs, pendingNews>>

\* Whether the handler of a received fetchNewsCmd can run (received says
\* whether the handler is that of fetchNewsCmd) and return cmds immediate
\* fetchNewsCmd commands and ticks timers of tickNews: a running program
\* holds such a message, and the counts stay within MaxPending.
CanReturn(received, cmds, ticks) ==
    pendingNews.run =>
        /\ received => pendingNews.cmds > 0
        /\ pendingNews.cmds + cmds <= MaxPending
        /\ pendingNews.ticks + ticks <= MaxPending

\* The pending fetchNewsCmd messages once a handler has returned cmds
\* immediate commands and ticks timers: the program runs the commands that
\* Update returns; without a running program they are dropped.
Returned(received, cmds, ticks) ==
    IF pendingNews.run
    THEN [pendingNews EXCEPT
            !.cmds = @ - (IF received THEN 1 ELSE 0) + cmds,
            !.ticks = @ + ticks]
    ELSE pendingNews

\* The program starts on the model: Model.Init returns tickNews and an
\* immediate fetchNewsCmd.
ModelInit ==
    /\ widgets # << >>
    /\ ~pendingNews.run
    /\ pendingNews' = [run |-> TRUE, cmds |-> 1, ticks |-> 1]
    /\ call' = [op |-> "Init"]
    /\ UNCHANGED <<timeVars, schedVars, mgrVars, NewsTags, NewsTagIndex, widgets, msgs>>

\* A timer of tea.Tick for the news fires and sends fetchNewsCmd.
TickNewsFires ==
    /\ pendingNews.run
    /\ pendingNews.ticks > 0
    /\ pendingNews.cmds < MaxPending
    /\ pendingNews' = [pendingNews EXCEPT !.ticks = @ - 1, !.cmds = @ + 1]
    /\ call' = [op |-> "tickNews"]
    /\ UNCHANGED <<timeVars, schedVars, mgrVars, NewsTags, NewsTagIndex, widgets, msgs>>

\* Whether GetAllNewsPlugins returns the plugin.
InNewsRegistry(p) ==
    \E t \in PluginTypes : \E i \in 1..Len(newsByType[t]) : newsByType[t][i] = p

\* Mutant of SetTagOnNewsPlugins: the aggregate keeps the tag to itself.
SetTagOnNewsPluginsNotOnSources(tag) ==
    /\ currentTag' = IF InNewsRegistry("hn") THEN tag ELSE currentTag
    /\ devTag' = IF InNewsRegistry("dev") THEN tag ELSE devTag
    /\ aggTag' = IF InNewsRegistry("agg") THEN tag ELSE aggTag

\* plugin.SetCurrentTag(tag) for every plugin of GetAllNewsPlugins (the
\* aggregate sets the tag on its sources too).
SetTagOnNewsPlugins(tag) ==
    /\ currentTag' = IF InNewsRegistry("hn") \/ InNewsRegistry("agg") THEN tag ELSE currentTag
    /\ devTag' = IF InNewsRegistry("dev") \/ InNewsRegistry("agg") THEN tag ELSE devTag
    /\ aggTag' = IF InNewsRegistry("agg") THEN tag ELSE aggTag

\* Model.Update, key "t": CycleNewsTag, the title of the news tile, the tag
\* set on the news plugins; it returns the command of fetchNewsCmd.
KeyT ==
    LET index == CycleNewsTag(NewsTagIndex, NewsTags)
        tag == GetCurrentNewsTag(index, NewsTags)
    IN /\ widgets # << >>
       /\ CanReturn(FALSE, 1, 0)
       /\ pendingNews' = Returned(FALSE, 1, 0)
       /\ NewsTagIndex' = index
       /\ widgets' = [widgets EXCEPT !["news"].title = <<"Tech News", tag>>]
       /\ SetTagOnNewsPlugins(IF tag # All THEN ToLower(tag) ELSE TagAll)
       /\ call' = [op |-> "KeyT", before |-> NewsTagIndex, tag |-> tag]
       /\ UNCHANGED <<timeVars, schedVars, regVars, dispVars, apiKey, weatherLast,
                      newsLast, devLast, aggLast, osrmVars, NewsTags, msgs>>

\* Model.Update, key "T": the index back to 0, the title of the news tile,
\* the tag "all" set on the news plugins; it returns the command of fetchNewsCmd.
KeyShiftT ==
    /\ widgets # << >>
    /\ CanReturn(FALSE, 1, 0)
    /\ pendingNews' = Returned(FALSE, 1, 0)
    /\ NewsTagIndex' = 0
    /\ widgets' = [widgets EXCEPT
                     !["news"].title = <<"Tech News", GetCurrentNewsTag(0, NewsTags)>>]
    /\ SetTagOnNewsPlugins(TagAll)
    /\ call' = [op |-> "KeyShiftT", before |-> NewsTagIndex]
    /\ UNCHANGED <<timeVars, schedVars, regVars, dispVars, apiKey, weatherLast,
                   newsLast, devLast, aggLast, osrmVars, NewsTags, msgs>>

\* The widget items that the newsMsg case builds from the news items: the
\* subtitle names the source (the items here carry no author and no points).
NewsWidgetItems(msg) ==
    [i \in 1..Len(msg) |->
        [Title |-> msg[i].Title,
         Subtitle |-> IF msg[i].Source = "hackernews" THEN "HN"
                      ELSE IF msg[i].Source = "devto" THEN "Dev.to" ELSE "",
         Status |-> "", URL |-> msg[i].URL]]

\* The items that the fetchNewsCmd case shows in place of news.
PluginNotFound ==
    [Title |-> "Plugin not found", Subtitle |-> "aggregate-news missing",
     Status |-> "error", URL |-> ""]
FetchingNews ==
    [Title |-> "Fetching news...", Subtitle |-> "Connecting to APIs",
     Status |-> "fetching", URL |-> ""]
FailedToFetchNews(err) ==
    [Title |-> "Failed to fetch news", Subtitle |-> err, Status |-> "error", URL |-> ""]

\* Model.Update, case fetchNewsCmd: without the plugin "aggregate-news" the
\* news tile shows "Plugin not found"; else it shows "Fetching news...", the
\* aggregate's Fetch is called, and an error is shown in the tile while a
\* result is sent as a newsMsg.  Every branch returns a timer for the next
\* fetchNewsCmd.
FetchNewsCmd(failHN, hits, failDev, articles) ==
    LET children == SourcesFetch(failHN, hits, failDev, articles)
        r == AggregateFetchResult(children)
    IN /\ widgets # << >>
       /\ CanReturn(TRUE, 0, 1)
       /\ pendingNews' = Returned(TRUE, 0, 1)
       /\ IF "aggregate-news" \notin DOMAIN plugins
          THEN /\ widgets' = [widgets EXCEPT !["news"] = UpdateItems(@, <<PluginNotFound>>)]
               /\ call' = [op |-> "fetchNewsCmd", fetched |-> FALSE, err |-> NoErr,
                           before |-> widgets["news"]]
               /\ UNCHANGED <<currentTag, newsLast, aggVars, msgs>>
          ELSE /\ Len(msgs) < MaxMsgs
               /\ currentTag' = SourceTags[1]
               /\ devTag' = SourceTags[2]
               /\ newsLast' = children[1].lastData
               /\ devLast' = children[2].lastData
               /\ aggLast' = r.lastData
               /\ widgets' = [widgets EXCEPT
                                !["news"] = IF r.err # NoErr
                                            THEN UpdateItems(@, <<FailedToFetchNews(r.err)>>)
                                            ELSE UpdateItems(@, <<FetchingNews>>)]
               /\ msgs' = IF r.err # NoErr THEN msgs ELSE Append(msgs, r.data)
               /\ call' = [op |-> "fetchNewsCmd", fetched |-> TRUE, err |-> r.err,
                           data |-> r.data, before |-> widgets["news"]]
               /\ UNCHANGED aggTag
       /\ UNCHANGED <<timeVars, schedVars, regVars, dispVars, apiKey, weatherLast,
                      osrmVars, NewsTags, NewsTagIndex>>

\* Model.Update, case newsMsg, for the i-th of the messages under way: the
\* news tile is updated when the message has items.  It returns tickNews.
NewsMsg(i) ==
    LET msg == msgs[i] IN
    /\ CanReturn(FALSE, 0, 1)
    /\ pendingNews' = Returned(FALSE, 0, 1)
    /\ widgets' = IF Len(msg) > 0
                  THEN [widgets EXCEPT !["news"] = UpdateItems(@, NewsWidgetItems(msg))]
                  ELSE widgets
    /\ msgs' = SubSeq(msgs, 1, i - 1) \o SubSeq(msgs, i + 1, Len(msgs))
    /\ call' = [op |-> "newsMsg", msg |-> msg, before |-> widgets["news"]]
    /\ UNCHANGED <<timeVars, schedVars, mgrVars, NewsTags, NewsTagIndex>>

\* The items of the traffic widget of the widget manager after a Fetch that
\* succeeded: one direction or both.
TrafficWidgetLists ==
    LET item(t) == [Title |-> t, Subtitle |-> "25 min", Status |-> "", URL |-> ""]
    IN {<<item("E -> W")>>, <<item("E -> W"), item("W -> E")>>}

\* The item that the fetchTrafficCmd case shows for an error.
TrafficUnavailable(err) ==
    [Title |-> "Traffic unavailable", Subtitle |-> err, Status |-> "error", URL |-> ""]

\* Model.Update, case fetchTrafficCmd: with the plugin "osrm_traffic"
\* registered its Fetch is called; after a result the traffic tile takes the
\* items and the error mark of the widget manager's traffic widget (items,
\* hasError), after an error it shows "Traffic unavailable" and the error mark.
FetchTrafficCmd(geoO, geoD, routeOD, routeDO, items, hasError) ==
    LET r == OSRMFetchResult(geoO, geoD, routeOD, routeDO) IN
    /\ widgets # << >>
    /\ IF "osrm_traffic" \notin DOMAIN plugins
       THEN /\ call' = [op |-> "fetchTrafficCmd", fetched |-> FALSE, err |-> NoErr,
                        io |-> FALSE, before |-> widgets["traffic"]]
            /\ UNCHANGED widgets
       ELSE /\ widgets' =
                  [widgets EXCEPT
                     !["traffic"] =
                        IF r.err = NoErr
                        THEN [UpdateItems(@, items) EXCEPT !.hasError = hasError]
                        ELSE [UpdateItems(@, <<TrafficUnavailable(r.err)>>)
                                EXCEPT !.hasError = TRUE]]
            /\ call' = [op |-> "fetchTrafficCmd", fetched |-> TRUE, err |-> r.err,
                        io |-> r.io, before |-> widgets["traffic"]]
    /\ UNCHANGED <<timeVars, schedVars, mgrVars, NewsTags, NewsTagIndex, msgs, pendingNews>>

Init ==
    /\ clock = 0
    /\ call = NoCall
    /\ tasks = NewScheduler
    /\ addOrder = << >>
    /\ plugins = NewPluginRegistry.plugins
    /\ newsByType = NewPluginRegistry.newsByType
    /\ cleanups = [p \in PluginObjs |-> 0]
    /\ regOrder = << >>
    /\ ptasks = NewPluginScheduler.tasks
    /\ theap = << >>
    /\ running = NewPluginScheduler.running
    /\ stopClosed = NewPluginScheduler.stopClosed
    /\ loopTick = << >>
    /\ execs = {}
    /\ crashed = FALSE
    /\ iter = << >>
    /\ fired = [id \in PluginIDs |-> 0]
    /\ apiKey = DefaultAPIKey
    /\ weatherLast = << >>
    /\ currentTag = TagAll
    /\ newsLast = << >>
    /\ devTag = TagAll
    /\ devLast = << >>
    /\ aggTag = TagAll
    /\ aggLast = << >>
    /\ origin = NewOSRMTrafficPlugin.origin
    /\ destination = NewOSRMTrafficPlugin.destination
    /\ initFailed = FALSE
    /\ NewsTags = NewWidgetManager.NewsTags
    /\ NewsTagIndex = NewWidgetManager.NewsTagIndex
    /\ widgets = << >>
    /\ msgs = << >>
    /\ pendingNews = [run |-> FALSE, cmds |-> 0, ticks |-> 0]

SchedNext ==
    \/ \E id \in TaskNames, iv \in Intervals, p \in Providers : AddTask(id, iv, p)
    \/ GetNextTask
    \/ GetNextWakeTime
    \/ \E id \in TaskNames : UpdateTask(id)
    \/ \E id \in TaskNames : RemoveTask(id)
    \/ Advance

\* The refresh Scheduler alone, driven by its callers.
SpecSched == Init /\ [][SchedNext]_vars

\* Both schedulers while tasks are added and removed under any name, present
\* or not. The two share nothing but the clock: the refresh Scheduler is
\* driven before the first plugin is registered, the plugin scheduler while
\* the refresh Scheduler is empty.
RemoveNext ==
    \/ \E id \in TaskNames, iv \in Intervals :
          DOMAIN plugins = {} /\ AddTask(id, iv, "provider")
    \/ \E id \in TaskNames : DOMAIN plugins = {} /\ UpdateTask(id)
    \/ \E id \in TaskNames : DOMAIN plugins = {} /\ RemoveTask(id)
    \/ \E p \in {"hn", "wx"} : DOMAIN tasks = {} /\ ManagerRegisterPlugin(p, "no config")
    \/ \E id \in PluginIDs : DOMAIN tasks = {} /\ SchedulePlugin(id, MaxInterval)
    \/ \E id \in PluginIDs : DOMAIN tasks = {} /\ PluginSchedulerRemoveTask(id)

SpecRemove == Init /\ [][RemoveNext]_vars

\* The plugin registry, through the manager and directly.
RegNext ==
    \/ \E p \in PluginObjs \cup {NilPlugin}, init \in InitOutcomes :
          ManagerRegisterPlugin(p, init)
    \/ \E id \in PluginIDs, cleanupFails \in BOOLEAN : UnregisterPlugin(id, cleanupFails)
    \/ \E t \in PluginTypes : GetPluginsByType(t)

SpecReg == Init /\ [][RegNext]_vars

\* The plugin manager with its dispatcher: plugins are registered and
\* scheduled (each ID once), the scheduler is started, run() handles ticks
\* and the executeTask goroutines run.
DispNext ==
    \/ \E p \in {"hn", "wx"} : ManagerRegisterPlugin(p, "no config")
    \/ \E id \in PluginIDs \ DOMAIN ptasks, iv \in Intervals : SchedulePlugin(id, iv)
    \/ Start
    \/ Advance
    \/ \E loop \in DOMAIN loopTick : RunTick(loop)
    \/ \E g \in execs : ExecUpdateTiming(g)
    \/ \E g \in execs, outcome \in FetchOutcomes : ExecFetchReturn(g, outcome)

SpecDisp == Init /\ [][DispNext]_vars

\* The dispatcher when the Fetch of the Hacker News plugin never returns: an
\* execution of its task stays inside Fetch.
HangNext ==
    \/ \E p \in {"hn", "wx"} : ManagerRegisterPlugin(p, "no config")
    \/ \E id \in DOMAIN plugins \ DOMAIN ptasks, iv \in Intervals : SchedulePlugin(id, iv)
    \/ Start
    \/ Advance
    \/ \E loop \in DOMAIN loopTick : RunTick(loop)
    \/ \E g \in execs : ExecUpdateTiming(g)
    \/ \E g \in execs, outcome \in FetchOutcomes :
          theap[g.task].Plugin # "hn" /\ ExecFetchReturn(g, outcome)

\* The plugin manager from its construction to its Cleanup, with two plugins
\* of which the Hacker News plugin is scheduled.
ShutNext ==
    \/ \E p \in {"hn", "wx"} : ManagerRegisterPlugin(p, "no config")
    \/ \E id \in {"hackernews"} \ DOMAIN ptasks, iv \in Intervals : SchedulePlugin(id, iv)
    \/ Start
    \/ Advance
    \/ \E loop \in DOMAIN loopTick : RunTick(loop)
    \/ \E loop \in DOMAIN loopTick : RunStop(loop)
    \/ \E g \in execs : ExecUpdateTiming(g)
    \/ \E g \in execs, outcome \in FetchOutcomes : ExecFetchReturn(g, outcome)
    \/ ManagerCleanup

SpecShut == Init /\ [][ShutNext]_vars

\* The plugin scheduler under any sequence of Start and Stop, with one
\* scheduled plugin, its run() goroutines and the executions they start.
StopNext ==
    \/ ManagerRegisterPlugin("hn", "no config")
    \/ \E id \in {"hackernews"} \ DOMAIN ptasks : SchedulePlugin(id, ShortInterval)
    \/ Start
    \/ Stop
    \/ Advance
    \/ \E loop \in DOMAIN loopTick : RunTick(loop)
    \/ \E loop \in DOMAIN loopTick : RunStop(loop)
    \/ \E g \in execs : ExecUpdateTiming(g)
    \/ \E g \in execs : ExecFetchReturn(g, "ok")

SpecStop == Init /\ [][StopNext]_vars

\* The dispatcher while plugins are registered, scheduled and unregistered.
UnregNext ==
    \/ \E p \in {"hn", "wx"} : ManagerRegisterPlugin(p, "no config")
    \/ \E id \in DOMAIN plugins \ DOMAIN ptasks : SchedulePlugin(id, ShortInterval)
    \/ \E id \in PluginIDs, cleanupFails \in BOOLEAN : UnregisterPlugin(id, cleanupFails)
    \/ Start
    \/ Advance
    \/ \E loop \in DOMAIN loopTick : RunTick(loop)
    \/ \E g \in execs : ExecUpdateTiming(g)
    \/ \E g \in execs : ExecFetchReturn(g, "ok")

SpecUnreg == Init /\ [][UnregNext]_vars

\* The plugin manager while plugins are scheduled under any ID, registered or
\* not, scheduled already or not, and the dispatcher runs.
PlanNext ==
    \/ ManagerRegisterPlugin("hn", "no config")
    \/ \E id \in {"hackernews", "openweathermap"}, iv \in Intervals : SchedulePlugin(id, iv)
    \/ Start
    \/ Advance
    \/ \E loop \in DOMAIN loopTick : RunTick(loop)
    \/ \E g \in execs : ExecUpdateTiming(g)

SpecPlan == Init /\ [][PlanNext]_vars

\* The plugin manager over a process lifetime: plugins are registered and
\* unregistered, the scheduler is started, and the manager's Cleanup is called.
LifeNext ==
    \/ \E p \in {"hn", "hn2", "wx"}, init \in InitOutcomes : ManagerRegisterPlugin(p, init)
    \/ \E id \in PluginIDs, cleanupFails \in BOOLEAN : UnregisterPlugin(id, cleanupFails)
    \/ Start
    \/ ManagerCleanup

SpecLife == Init /\ [][LifeNext]_vars

\* The dispatcher with the loop of checkAndExecuteTasks taken one task at a
\* time, while its callers schedule and remove tasks and the executeTask
\* goroutines run.
RaceNext ==
    \/ \E p \in {"hn", "wx"} : ManagerRegisterPlugin(p, "no config")
    \/ \E id \in DOMAIN plugins \ DOMAIN ptasks, iv \in Intervals : SchedulePlugin(id, iv)
    \/ \E id \in DOMAIN ptasks : PluginSchedulerRemoveTask(id)
    \/ Start
    \/ Advance
    \/ \E loop \in DOMAIN loopTick : RunTickBegin(loop)
    \/ \E loop \in DOMAIN loopTick : RunTickVisit(loop)
    \/ \E loop \in DOMAIN loopTick : RunTickEnd(loop)
    \/ \E g \in execs : ExecUpdateTiming(g)
    \/ \E g \in execs, outcome \in FetchOutcomes : ExecFetchReturn(g, outcome)

SpecRace == Init /\ [][RaceNext]_vars

\* The end-to-end scenario: at time 0 the Hacker News plugin is scheduled with
\* the short interval and the weather plugin with the long one, and the
\* scheduler is started; then the ticker fires every second, run() takes
\* every tick, and the executeTask goroutines run: each sets its task's
\* timing within the second of its tick, and its Fetch returns at any time.
E2ENext ==
    \/ \E p \in {"hn", "wx"} : clock = 0 /\ ManagerRegisterPlugin(p, "no config")
    \/ /\ clock = 0 /\ ~running
       /\ "hackernews" \in DOMAIN plugins \ DOMAIN ptasks
       /\ SchedulePlugin("hackernews", ShortInterval)
       /\ clock' = clock
    \/ /\ clock = 0 /\ ~running
       /\ "openweathermap" \in DOMAIN plugins \ DOMAIN ptasks
       /\ SchedulePlugin("openweathermap", LongInterval)
       /\ clock' = clock
    \/ /\ ~running
       /\ DOMAIN ptasks = {"hackernews", "openweathermap"}
       /\ Start
    \/ AdvanceTick
    \/ \E loop \in DOMAIN loopTick : RunTick(loop)
    \/ \E g \in execs : ExecUpdateTiming(g)
    \/ \E g \in execs, outcome \in FetchOutcomes : ExecFetchReturn(g, outcome)

SpecE2E == Init /\ [][E2ENext]_vars

\* The scheduling of the goroutines: run() handles a tick that its ticker
\* holds, a started executeTask reaches its Fetch, and a Fetch of another
\* plugin returns.
HangFairness ==
    /\ WF_vars(\E loop \in DOMAIN loopTick : RunTick(loop))
    /\ WF_vars(\E g \in execs : ExecUpdateTiming(g))
    /\ WF_vars(\E g \in execs, outcome \in FetchOutcomes :
                  theap[g.task].Plugin # "hn" /\ ExecFetchReturn(g, outcome))

SpecHang == Init /\ [][HangNext]_vars /\ HangFairness

\* The plugins' Fetch, called with any outcome of the request.
FetchNext ==
    \/ \E key \in {<< >>, <<"">>, <<DefaultAPIKey>>, <<"key">>} : WeatherInitialize(key)
    \/ \E fail \in FetchFailures \cup {"none"}, resp \in WeatherResponses :
          WeatherFetch(fail, resp)
    \/ \E tag \in {TagAll, EmptyString, TagGo} : SetCurrentTag(tag)
    \/ \E fail \in FetchFailures \cup {"none"}, hits \in SeqsUpTo(Hits, MaxHits) :
          HackerNewsFetch(fail, hits)

SpecFetch == Init /\ [][FetchNext]_vars

\* The aggregate news plugin over the Hacker News and the Dev.to plugin: the
\* request of a source fails (client.Do) or its response has stories with URL.
AggNext ==
    \/ \E tag \in {TagAll, TagGo} : AggregateSetCurrentTag(tag)
    \/ \E failHN \in {"do", "none"}, failDev \in {"do", "none"},
          hits \in SeqsUpTo({h \in Hits : h.URL # ""}, MaxSourceItems),
          articles \in SeqsUpTo({a \in Articles : a.URL # ""}, MaxSourceItems) :
          AggregateFetch(failHN, hits, failDev, articles)

SpecAgg == Init /\ [][AggNext]_vars

\* The aggregate news plugin with long responses of its sources, whose tags
\* are also set on their own.
AggLongNext ==
    \/ \E tag \in {TagAll, TagGo} : AggregateSetCurrentTag(tag)
    \/ \E tag \in {TagAll, TagGo} : SetCurrentTag(tag)
    \/ \E tag \in {TagAll, TagGo} : DevToSetCurrentTag(tag)
    \/ \E failHN \in {"do", "none"}, failDev \in {"do", "none"},
          n \in {0, 1, LongRun}, m \in {0, 1, LongRun} :
          AggregateFetch(failHN, HitRun(n), failDev, ArticleRun(m))

SpecAggLong == Init /\ [][AggLongNext]_vars

\* The news tags of the user interface: the model is built from a
\* configuration, news plugins are registered, and the keys "t" and "T" are
\* pressed.
TagNext ==
    \/ \E cfgTags \in SeqsUpTo(ConfigTags, MaxTags) : InitialModel(cfgTags)
    \/ \E p \in {"hn", "agg"} : ManagerRegisterPlugin(p, "ok")
    \/ KeyT
    \/ KeyShiftT

SpecTags == Init /\ [][TagNext]_vars

\* The news widget of the user interface: the model is built, the aggregate
\* plugin is registered, news are fetched and the messages with the results
\* are received; the request of a source fails (client.Do) or its response
\* has stories with URL.
NewsUINext ==
    \/ InitialModel(<< >>)
    \/ ManagerRegisterPlugin("agg", "ok")
    \/ \E failHN \in {"do", "none"}, failDev \in {"do", "none"},
          hits \in SeqsUpTo({h \in Hits : h.URL # ""}, MaxSourceItems),
          articles \in SeqsUpTo({a \in Articles : a.URL # ""}, MaxSourceItems) :
          FetchNewsCmd(failHN, hits, failDev, articles)
    \/ \E i \in DOMAIN msgs : NewsMsg(i)

SpecNewsUI == Init /\ [][NewsUINext]_vars

\* The traffic plugin and its widget: the model is built, the plugin is
\* registered with some configuration, and its Fetch is called directly and
\* by the user interface, with any outcome of its requests.
TrafficNext ==
    \/ InitialModel(<< >>)
    \/ \E cfgOrigin \in CfgLocations, cfgDestination \in CfgLocations :
          ManagerRegisterOSRM(cfgOrigin, cfgDestination)
    \/ \E geoO \in {"ok", "error"}, geoD \in {"ok", "error"},
          routeOD \in {"ok", "error"}, routeDO \in {"ok", "error"} :
          OSRMFetch(geoO, geoD, routeOD, routeDO)
    \/ \E geoO \in {"ok", "error"}, geoD \in {"ok", "error"},
          routeOD \in {"ok", "error"}, routeDO \in {"ok", "error"},
          items \in TrafficWidgetLists, hasError \in BOOLEAN :
          FetchTrafficCmd(geoO, geoD, routeOD, routeDO, items, hasError)

SpecTraffic == Init /\ [][TrafficNext]_vars

\* The running program with the news alone and no key pressed: Model.Init,
\* the timers, and the handlers of fetchNewsCmd and newsMsg.
LoopNext ==
    \/ InitialModel(<< >>)
    \/ ManagerRegisterPlugin("agg", "ok")
    \/ ModelInit
    \/ TickNewsFires
    \/ \E failHN \in {"do", "none"}, hits \in {<<CHOOSE h \in Hits : h.URL # "">>} :
          pendingNews.run /\ FetchNewsCmd(failHN, hits, "do", << >>)
    \/ \E i \in DOMAIN msgs : NewsMsg(i)

SpecLoop == Init /\ [][LoopNext]_vars

\* The tag filter of a news plugin, called with any list of items under any
\* current tag.
FilterNext ==
    \/ \E tag \in {TagAll, EmptyString, TagGo, <<"G", "O">>} : SetCurrentTag(tag)
    \/ \E items \in SeqsUpTo(NewsItems, MaxItems) : FilterByCurrentTag(items)

SpecFilter == Init /\ [][FilterNext]_vars

\* ------------------------------------------------- claims on the Scheduler

\* The smallest NextRun among the tasks.
MinNextRun == CHOOSE m \in {tasks[t].NextRun : t \in DOMAIN tasks} :
                  \A t \in DOMAIN tasks : m <= tasks[t].NextRun

\* The task added earliest among those whose NextRun is the smallest.
EarliestAddedMin ==
    LET at == {i \in 1..Len(addOrder) : tasks[addOrder[i]].NextRun = MinNextRun}
    IN addOrder[CHOOSE i \in at : \A j \in at : i <= j]

\* C5: after UpdateTask (MarkRan) on an existing task, NextRun = LastRun +
\* Interval exactly and LastRun is the time at which the operation was invoked.
C5_MarkRanExact ==
    (call.op = "UpdateTask" /\ call.existed) =>
        /\ tasks[call.id].NextRun = tasks[call.id].LastRun + tasks[call.id].Interval
        /\ tasks[call.id].LastRun = call.at

\* C6: GetNextTask returns a task whose NextRun is at most that of every task
\* in the scheduler, and returns nil exactly when the scheduler has no task.
C6_NextDueIsMinimal ==
    call.op = "GetNextTask" =>
        /\ call.ret = NoTask <=> DOMAIN tasks = {}
        /\ call.ret # NoTask =>
              /\ call.ret \in DOMAIN tasks
              /\ \A t \in DOMAIN tasks : tasks[call.ret].NextRun <= tasks[t].NextRun

\* C6 witness: GetNextTask has returned a task out of two with different NextRun.
C6_Witness ==
    /\ call.op = "GetNextTask"
    /\ call.ret \in DOMAIN tasks
    /\ \E t \in DOMAIN tasks : tasks[t].NextRun > tasks[call.ret].NextRun

\* C31: GetNextWakeTime returns the NextRun of the task that GetNextTask
\* returns (in whatever order the map is ranged over) when the scheduler has a
\* task, and the time of the call plus one hour when it has none.
C31_NextWakeTime ==
    call.op = "GetNextWakeTime" =>
        /\ DOMAIN tasks # {} =>
              \A o \in Orders(DOMAIN tasks) : call.ret = tasks[GetNextTaskIn(o)].NextRun
        /\ DOMAIN tasks = {} => call.ret = call.at + Hour

\* C31 witness: GetNextWakeTime has returned with two tasks of different
\* NextRun in the scheduler.
C31_Witness ==
    /\ call.op = "GetNextWakeTime"
    /\ \E t, u \in DOMAIN tasks : tasks[t].NextRun < tasks[u].NextRun
    /\ call.ret = MinNextRun

\* C32: RemoveTask of either scheduler on a name that is not there changes
\* nothing; on a name that is there it removes that task and leaves every
\* other task as it was.
C32_RemoveTaskFrame ==
    [][/\ call'.op = "RemoveTask" =>
            /\ DOMAIN tasks' = DOMAIN tasks \ {call'.id}
            /\ \A t \in DOMAIN tasks' : tasks'[t] = tasks[t]
            /\ call'.id \notin DOMAIN tasks => tasks' = tasks
       /\ call'.op = "PluginSchedulerRemoveTask" =>
            /\ DOMAIN ptasks' = DOMAIN ptasks \ {call'.id}
            /\ \A t \in DOMAIN ptasks' :
                  /\ ptasks'[t] = ptasks[t]
                  /\ theap'[ptasks'[t]] = theap[ptasks[t]]
            /\ call'.id \notin DOMAIN ptasks => (ptasks' = ptasks /\ theap' = theap)
      ]_vars

\* C32 witness: RemoveTask has removed one of two tasks of the scheduler.
C32_Witness ==
    /\ call.op = "RemoveTask"
    /\ call.id \in DOMAIN call.before
    /\ DOMAIN tasks # {}
    /\ DOMAIN tasks = DOMAIN call.before \ {call.id}

\* C7: when several tasks share the smallest NextRun, GetNextTask returns the
\* one that was added earliest.
C7_TieBreakInsertionOrder ==
    (call.op = "GetNextTask" /\ call.ret # NoTask) => call.ret = EarliestAddedMin

\* C9: AddTask with a name already in the scheduler replaces the task: the
\* number of tasks does not grow, and the stored task has the new interval and
\* provider, with NextRun computed from the new interval and the time of the call.
C9_AddTaskReplaces ==
    (call.op = "AddTask" /\ call.existed) =>
        /\ Cardinality(DOMAIN tasks) = call.count
        /\ tasks[call.id].Interval = call.interval
        /\ tasks[call.id].Provider = call.provider
        /\ tasks[call.id].NextRun >= call.at + call.interval
        /\ tasks[call.id].NextRun <= clock + call.interval

\* C9 witness: AddTask has replaced a task while another task is in the scheduler.
C9_Witness ==
    /\ call.op = "AddTask"
    /\ call.existed
    /\ call.count = 2
    /\ tasks[call.id].LastRun > 0

\* -------------------------------------------------- claims on the registry

\* C2: UnregisterPlugin of a registered plugin whose Cleanup returns an error
\* still removes the plugin from plugins and from newsByType, and returns the
\* error.
C2_UnregisterRemovesDespiteCleanupError ==
    (call.op = "UnregisterPlugin" /\ call.existed /\ call.cleanupFails) =>
        /\ call.err # NoErr
        /\ call.id \notin DOMAIN plugins
        /\ \A t \in PluginTypes : \A i \in 1..Len(newsByType[t]) :
              GetID(newsByType[t][i]) # call.id

\* C8: RegisterPlugin with an ID that is already registered returns an error
\* and leaves the registry as it was: the same number of plugins, the same
\* plugin under that ID, the same newsByType.
C8_DuplicateRegisterRejected ==
    (call.op = "RegisterPlugin" /\ call.dup) =>
        /\ call.err = "already registered"
        /\ Cardinality(DOMAIN plugins) = Cardinality(DOMAIN call.before.plugins)
        /\ plugins = call.before.plugins
        /\ newsByType = call.before.newsByType

\* C8 witness: a second plugin object with the ID of a registered one has
\* been handed to RegisterPlugin.
C8_Witness ==
    /\ call.op = "RegisterPlugin"
    /\ call.dup
    /\ call.plugin = "hn2"
    /\ plugins["hackernews"] = "hn"
    /\ newsByType["news"] = <<"hn">>

\* C38: whenever PluginManager.RegisterPlugin returns an error, the registry
\* holds the plugins it held before the call: the rejected plugin is not
\* found under its ID.
C38_RegisterAllOrNothing ==
    (call.op = "RegisterPlugin" /\ call.err # NoErr) =>
        /\ plugins = call.before.plugins
        /\ newsByType = call.before.newsByType

\* C19: UnregisterPlugin of an ID that is not registered returns the
\* not-found error, calls no Cleanup and leaves plugins and newsByType as
\* they were.
C19_UnregisterMissingIsNotFound ==
    (call.op = "UnregisterPlugin" /\ ~call.existed) =>
        /\ call.err = "not found"
        /\ cleanups = call.before.cleanups
        /\ plugins = call.before.plugins
        /\ newsByType = call.before.newsByType

\* C19 witness: an ID that is not registered has been unregistered while
\* another plugin is registered in both indexes.
C19_Witness ==
    /\ call.op = "UnregisterPlugin"
    /\ ~call.existed
    /\ call.id = "devto"
    /\ "hackernews" \in DOMAIN plugins
    /\ newsByType["news"] # << >>

\* C20: GetPluginsByType returns exactly the registered plugins of the type,
\* in the order in which they were registered.
C20_ByTypeInRegistrationOrder ==
    call.op = "GetPluginsByType" =>
        call.ret = SelectSeq(regOrder, LAMBDA p : GetType(p) = call.type)

\* C21: in every state of the registry, newsByType holds under each type
\* exactly the registered plugins that are NewsPlugin and have that type, each
\* once and in the order of registration, and every plugin of newsByType is
\* the plugin that plugins holds under its ID.
C21_NewsIndexMatchesRegistry ==
    /\ \A t \in PluginTypes :
          newsByType[t] = SelectSeq(regOrder, LAMBDA p : IsNewsPlugin(p) /\ GetType(p) = t)
    /\ \A t \in PluginTypes : \A i \in 1..Len(newsByType[t]) :
          /\ GetID(newsByType[t][i]) \in DOMAIN plugins
          /\ plugins[GetID(newsByType[t][i])] = newsByType[t][i]
    /\ \A id \in DOMAIN plugins :
          IsNewsPlugin(plugins[id]) =>
              Cardinality({i \in 1..Len(newsByType[GetType(plugins[id])]) :
                              newsByType[GetType(plugins[id])][i] = plugins[id]}) = 1

\* C21 witness: the first of two registered news plugins has been
\* unregistered and a plugin with its ID registered again, next to a plugin
\* that is not a NewsPlugin.
C21_Witness ==
    /\ newsByType["news"] = <<"dev", "hn2">>
    /\ DOMAIN plugins = {"devto", "hackernews", "openweathermap"}
    /\ cleanups["hn"] = 1

\* C29: over any sequence of RegisterPlugin, UnregisterPlugin and the
\* manager's Cleanup, the Cleanup of each plugin is called at most once.
C29_CleanupAtMostOncePerPlugin ==
    \A p \in PluginObjs : cleanups[p] <= 1

\* ------------------------------------------------ claims on the dispatcher

\* The executions of the task named id that are inside Fetch.
InFetch(id) == {g \in execs : g.pc = "fetch" /\ theap[g.task].ID = id}

\* C1: for every task name, at most one execution of that task is in flight
\* at any time.
C1_AtMostOneExecutionPerTask ==
    \A id \in PluginIDs : Cardinality(InFetch(id)) <= 1

\* C3: an error or a panic of a plugin's Fetch does not leave the task's
\* execution: the process goes on, the registry, the task map and the run()
\* goroutines are as they were, the other executions are untouched and can
\* return, and a tick launches every due task.
C3_FetchFailureIsolated ==
    /\ ~crashed
    /\ (call.op = "ExecFetchReturn" /\ call.outcome \in {"error", "panic"}) =>
          /\ plugins = call.before.plugins
          /\ newsByType = call.before.newsByType
          /\ ptasks = call.before.ptasks
          /\ theap = call.before.theap
          /\ loopTick = call.before.loopTick
          /\ running = call.before.running
          /\ execs = call.others
          /\ \A g \in execs : g.pc = "fetch" => ENABLED ExecFetchReturn(g, "ok")
          /\ \A loop \in DOMAIN loopTick : loopTick[loop] >= 0 => ENABLED RunTick(loop)
    /\ call.op = "RunTick" =>
          \A id \in DOMAIN ptasks :
              Due(theap[ptasks[id]], call.now) =>
                  \E g \in execs : g.task = ptasks[id] /\ g.now = call.now /\ g.pc = "go"

\* C3 witness: the Fetch of one task has panicked while another task's
\* execution is inside Fetch and the run() goroutine has a tick to handle.
C3_Witness ==
    /\ call.op = "ExecFetchReturn"
    /\ call.outcome = "panic"
    /\ \E g \in execs : g.pc = "fetch" /\ g.task # call.task
    /\ \E loop \in DOMAIN loopTick : loopTick[loop] >= 0

\* An execution of a task other than the Hacker News task, started by a tick
\* of time n, has not returned.
OtherInFlight(n) ==
    \E g \in execs : g.now = n /\ theap[g.task].Plugin # "hn"

\* C14: also when the Fetch of one task (the Hacker News plugin) never
\* returns, every tick that the ticker of the run() goroutine holds is
\* processed, and the executions of the other tasks that a tick has started
\* complete.  (Start has started one run() goroutine, the first of loopTick.)
C14_HungFetchBlocksNothing ==
    /\ (loopTick # << >> /\ Head(loopTick) >= 0)
          ~> (loopTick # << >> /\ Head(loopTick) = NoTick)
    /\ \A n \in 1..MaxClock : OtherInFlight(n) ~> ~OtherInFlight(n)

\* C14 witness: the execution of the weather task has returned while the
\* Hacker News execution started by the same tick is still inside Fetch and
\* the clock has moved on.
C14_Witness ==
    /\ call.op = "ExecFetchReturn"
    /\ theap[call.task].Plugin = "wx"
    /\ clock > call.now
    /\ \E g \in execs : /\ g.pc = "fetch"
                         /\ g.now = call.now
                         /\ theap[g.task].Plugin = "hn"

\* C18: PluginManager.Cleanup calls Cleanup of every registered plugin,
\* whether the scheduler was running or not, and leaves the scheduler not
\* running; once it has closed stopCh, run() processes no tick.
C18_CleanupStopsLoopAndTearsDown ==
    /\ (call.op = "ManagerCleanup" /\ ~crashed) =>
          /\ ~running
          /\ \A id \in DOMAIN plugins :
                cleanups[plugins[id]] = call.before.cleanups[plugins[id]] + 1
    /\ call.op = "RunTick" => ~stopClosed

\* C33: whatever the sequence of Start and Stop calls, Stop does not close a
\* stop channel that is closed already: no Stop ends in a panic.
C33_StopClosesOnce == call.op = "Stop" => ~crashed

\* C34: run() starts an execution only while the scheduler is running: once
\* Stop has returned, no tick starts an executeTask goroutine.
C34_NoExecutionAfterStop ==
    (call.op = "RunTick" /\ \E g \in execs : g.pc = "go" /\ g.now = call.now) =>
        running

\* Whether the plugin object p is in the registry.
Registered(p) == \E id \in DOMAIN plugins : plugins[id] = p

\* C35: a tick starts executions only of tasks whose plugin is in the
\* registry, and Fetch is invoked only on a plugin that is in the registry:
\* after a successful UnregisterPlugin the plugin's task is not executed.
C35_NoFetchAfterUnregister ==
    /\ call.op = "RunTick" =>
          \A g \in execs : (g.pc = "go" /\ g.now = call.now) =>
                Registered(theap[g.task].Plugin)
    /\ call.op = "ExecUpdateTiming" => Registered(theap[call.task].Plugin)

\* C40: SchedulePlugin with an ID that is not registered returns an error and
\* leaves the tasks as they were; with a registered ID it returns no error
\* and leaves one task under that ID, a new one bound to the registered
\* plugin, whose NextRun is a time of the call plus the interval, every other
\* task being as it was; and the first execution of a task is started by a
\* tick that is at least one interval after the call that scheduled it.
C40_SchedulePluginAddsOneTask ==
    [][/\ call'.op = "SchedulePlugin" =>
            IF call'.id \notin DOMAIN plugins
            THEN /\ call'.err # NoErr
                 /\ ptasks' = ptasks
                 /\ theap' = theap
            ELSE /\ call'.err = NoErr
                 /\ DOMAIN ptasks' = DOMAIN ptasks \cup {call'.id}
                 /\ \A t \in DOMAIN ptasks \ {call'.id} : ptasks'[t] = ptasks[t]
                 /\ Len(theap') = Len(theap) + 1
                 /\ \A i \in DOMAIN theap : theap'[i] = theap[i]
                 /\ ptasks'[call'.id] = Len(theap')
                 /\ LET task == theap'[ptasks'[call'.id]]
                    IN /\ task.ID = call'.id
                       /\ task.Plugin = plugins[call'.id]
                       /\ task.Interval \in Intervals
                       /\ task.NextRun - task.Interval >= clock
                       /\ task.NextRun - task.Interval <= clock'
       /\ call'.op = "RunTick" =>
            \A g \in execs' \ execs :
                fired[theap[g.task].ID] = 0 =>
                    g.now >= theap[g.task].LastRun + theap[g.task].Interval
      ]_vars

\* C40 witness: a task scheduled over another one with the same ID has been
\* started for the first time, by the tick one interval after the call.
C40_Witness ==
    /\ call.op = "RunTick"
    /\ Len(theap) = 2
    /\ theap[1].ID = theap[2].ID
    /\ \E g \in execs :
          /\ g.pc = "go"
          /\ g.task = 2
          /\ fired[theap[2].ID] = 1
          /\ g.now = theap[2].LastRun + theap[2].Interval

\* C17: while a run() goroutine is inside the loop over ps.tasks, no task is
\* added to or removed from ps.tasks, and no execution writes the timing
\* fields of a task that the loop has still to read.
C17_NoWriteDuringIteration ==
    \A loop \in DOMAIN iter :
        /\ ~(call.op = "SchedulePlugin" /\ call.err = NoErr)
        /\ ~(call.op = "PluginSchedulerRemoveTask" /\ call.existed)
        /\ ~(/\ call.op = "ExecUpdateTiming"
             /\ \E k \in 1..Len(iter[loop].todo) :
                   /\ iter[loop].todo[k] \in DOMAIN ptasks
                   /\ ptasks[iter[loop].todo[k]] = call.task)

C16_FailedFetchKeepsNormalInterval ==
    call.op = "ExecFetchReturn" =>
        /\ theap[call.task].LastRun = call.now =>
               theap[call.task].NextRun = call.now + theap[call.task].Interval
        /\ call.outcome \in {"error", "panic"} =>
               /\ \E id \in DOMAIN ptasks : ptasks[id] = call.task
               /\ theap[call.task] = call.before.theap[call.task]
               /\ execs = call.others

\* C16 witness: a Fetch has failed while the task's timing is the one this
\* execution has set, and the task is not due before its interval has passed.
C16_Witness ==
    /\ call.op = "ExecFetchReturn"
    /\ call.outcome = "error"
    /\ theap[call.task].LastRun = call.now
    /\ theap[call.task].Interval = MaxInterval
    /\ theap[call.task].NextRun > clock

\* C4: for every task NextRun = LastRun + Interval in every state, and an
\* execution never sets NextRun to a value smaller than the one it had.
C4_NextRunInvariant ==
    /\ \A i \in DOMAIN theap : theap[i].NextRun = theap[i].LastRun + theap[i].Interval
    /\ call.op = "ExecUpdateTiming" => theap[call.task].NextRun >= call.prevNextRun

\* --------------------------------------------- claims on the plugins' Fetch

\* C10: a Fetch that returns an error leaves the plugin's lastData as it was
\* before the call.
C10_FailedFetchKeepsLastData ==
    /\ (call.op = "WeatherFetch" /\ call.err # NoErr) => weatherLast = call.before
    /\ (call.op = "HackerNewsFetch" /\ call.err # NoErr) => newsLast = call.before

\* Whether str contains sub when upper and lower case are taken as the same.
ContainsFold(str, sub) ==
    \E i \in 0..(Len(str) - Len(sub)) :
        \A k \in 1..Len(sub) : LowerChar(str[i + k]) = LowerChar(sub[k])

\* Whether str equals sub when upper and lower case are taken as the same.
EqualFold(str, sub) ==
    Len(str) = Len(sub) /\ \A k \in 1..Len(sub) : LowerChar(str[k]) = LowerChar(sub[k])

\* Whether list is the list of the elements of items at the positions keep,
\* in the order of items.
IsSelection(list, items, keep) ==
    /\ Len(list) = Cardinality(keep)
    /\ \A k \in 1..Len(list) :
          list[k] = items[CHOOSE i \in keep : Cardinality({j \in keep : j <= i}) = k]

\* C22 as stated: under a tag other than "all" and the empty tag, the filter
\* keeps exactly the items whose title, description or one of whose tags
\* contains the tag, case-insensitively; under "all" or the empty tag it
\* returns the list as it is.
C22_FilterKeepsItemsContainingTag ==
    call.op = "filterByCurrentTag" =>
        IF call.tag = TagAll \/ call.tag = EmptyString
        THEN call.ret = call.items
        ELSE IsSelection(call.ret, call.items,
                 {i \in 1..Len(call.items) :
                     \/ ContainsFold(call.items[i].Title, call.tag)
                     \/ ContainsFold(call.items[i].Description, call.tag)
                     \/ \E j \in 1..Len(call.items[i].Tags) :
                           ContainsFold(call.items[i].Tags[j], call.tag)})

\* C22 amended: under a tag other than "all" and the empty tag, the filter
\* keeps exactly the items whose title or description contains the tag or one
\* of whose tags equals the tag, case-insensitively, in their order; under
\* "all" or the empty tag it returns the list as it is.
C22_FilterKeepsMatchingItems ==
    call.op = "filterByCurrentTag" =>
        IF call.tag = TagAll \/ call.tag = EmptyString
        THEN call.ret = call.items
        ELSE IsSelection(call.ret, call.items,
                 {i \in 1..Len(call.items) :
                     \/ ContainsFold(call.items[i].Title, call.tag)
                     \/ ContainsFold(call.items[i].Description, call.tag)
                     \/ \E j \in 1..Len(call.items[i].Tags) :
                           EqualFold(call.items[i].Tags[j], call.tag)})

\* C22 witness: under the tag "go" the filter has dropped an item that has a
\* longer tag containing "go" and kept an item whose tag is "GO".
C22_Witness ==
    /\ call.op = "filterByCurrentTag"
    /\ call.tag = TagGo
    /\ Len(call.items) = 2
    /\ call.items[1].Tags = <<(<<"p">>), <<"g", "o", "l">>>>
    /\ call.items[2].Tags = <<(<<"G", "O">>)>>
    /\ call.ret = <<call.items[2]>>

\* The sources of the aggregate whose Fetch returned no error, and those
\* whose Fetch returned an error, in the last call of AggregateFetch.
Succeeded == {i \in DOMAIN call.children : call.children[i].err = NoErr}
Failed == {i \in DOMAIN call.children : call.children[i].err # NoErr}

\* C11: when a source succeeds with items and another fails, the aggregate's
\* Fetch returns no error and exactly the items of the sources that
\* succeeded, filtered by the tag and cut to the limit; no returned item comes
\* from a source that failed.
C11_PartialFailureReturnsSuccessfulItems ==
    (/\ call.op = "AggregateFetch"
     /\ Failed # {}
     /\ \E i \in Succeeded : Len(call.children[i].data) > 0) =>
        /\ call.err = NoErr
        /\ call.data = Limit(filterByCurrentTag(call.tag, AllItems(call.children)),
                             AggregateLimit)
        /\ \A k \in 1..Len(call.data) :
              \E i \in Succeeded : \E j \in 1..Len(call.children[i].data) :
                  call.data[k] = call.children[i].data[j]

\* C11 witness: the Hacker News source has failed and returned its earlier
\* items with the error, and the Dev.to source has returned an item under
\* the tag "go".
C11_Witness ==
    /\ call.op = "AggregateFetch"
    /\ call.tag = TagGo
    /\ call.children[1].err # NoErr
    /\ Len(call.children[1].data) > 0
    /\ call.children[2].err = NoErr
    /\ Len(call.children[2].data) > 0
    /\ Len(call.data) > 0

\* C12: when the Fetch of every source fails and the aggregate has no cached
\* result, the aggregate's Fetch returns an error.
C12_AllFailNoCacheIsError ==
    (call.op = "AggregateFetch" /\ Succeeded = {} /\ Len(call.before) = 0) =>
        call.err # NoErr

\* C13: when the Fetch of every source fails and the aggregate has a cached
\* result that is not empty, the aggregate's Fetch returns that list and no
\* error, and the cache is as it was.
C13_AllFailReturnsCache ==
    (call.op = "AggregateFetch" /\ Succeeded = {} /\ Len(call.before) > 0) =>
        /\ call.err = NoErr
        /\ call.data = call.before
        /\ aggLast = call.before

\* C13 witness: every source has failed while the aggregate holds the items
\* of an earlier cycle.
C13_Witness ==
    /\ call.op = "AggregateFetch"
    /\ Succeeded = {}
    /\ Len(call.before) > 0
    /\ Len(aggLast) > 0

\* C24: every list that the aggregate's Fetch returns, and the aggregate's
\* lastData in every state, has at most 12 items.
C24_AggregateAtMostTwelve ==
    /\ Len(aggLast) <= AggregateLimit
    /\ call.op = "AggregateFetch" => Len(call.data) <= AggregateLimit

\* C24 witness: both sources have returned their full ten items and the
\* aggregate has returned and stored twelve of the twenty.
C24_Witness ==
    /\ call.op = "AggregateFetch"
    /\ Succeeded = {1, 2}
    /\ Len(call.children[1].data) + Len(call.children[2].data) = HackerNewsLimit + DevToLimit
    /\ Len(call.data) = AggregateLimit
    /\ Len(aggLast) = AggregateLimit

\* Whether every item of list is kept by the tag filter under tag.
AllUnderTag(list, tag) ==
    (tag # TagAll /\ tag # EmptyString) =>
        \A k \in 1..Len(list) :
            \/ ContainsFold(list[k].Title, tag)
            \/ ContainsFold(list[k].Description, tag)
            \/ \E j \in 1..Len(list[k].Tags) : EqualFold(list[k].Tags[j], tag)

\* C36: every item of a list that the aggregate's Fetch returns matches the
\* tag the aggregate has at the call, a list returned from the cache included.
C36_AggregateItemsMatchActiveTag ==
    call.op = "AggregateFetch" => AllUnderTag(call.data, call.tag)

\* C25: in the aggregate's Fetch each source has the aggregate's current tag
\* when its Fetch is called, whatever tag the source had before: the items a
\* source returns are filtered under the aggregate's tag, and after the call
\* both sources hold that tag.
C25_SourcesFetchUnderAggregateTag ==
    call.op = "AggregateFetch" =>
        /\ \A i \in DOMAIN call.sourceTags : call.sourceTags[i] = call.tag
        /\ \A i \in Succeeded : AllUnderTag(call.children[i].data, call.tag)
        /\ currentTag = call.tag
        /\ devTag = call.tag

\* C25 witness: both sources had been set to "all" on their own while the
\* aggregate's tag is "go", and both have returned the stories about Go out
\* of a long response.
C25_Witness ==
    /\ call.op = "AggregateFetch"
    /\ call.tag = TagGo
    /\ call.tagsBefore = <<TagAll, TagAll>>
    /\ Succeeded = {1, 2}
    /\ Len(call.children[1].data) > 1
    /\ Len(call.children[1].data) < HackerNewsLimit
    /\ Len(call.children[2].data) > 1

\* The place of a returned item in the merge: the number of its source in
\* the aggregate's list of sources and its position in that source's items.
SourceOf(item) == IF item.Source = "hackernews" THEN 1 ELSE 2
PlaceIn(item) ==
    CHOOSE j \in 1..Len(call.children[SourceOf(item)].data) :
        call.children[SourceOf(item)].data[j] = item

\* C26: when a source has returned items, the list the aggregate returns
\* holds items of the successful sources only, the items of an earlier source
\* before those of a later one and the items of one source in that source's
\* order; under the tag "all" and within the limit it holds all of them.
C26_MergeInSourceOrder ==
    (call.op = "AggregateFetch" /\ \E i \in Succeeded : Len(call.children[i].data) > 0) =>
        /\ \A k \in 1..Len(call.data) :
              /\ SourceOf(call.data[k]) \in Succeeded
              /\ \E j \in 1..Len(call.children[SourceOf(call.data[k])].data) :
                    call.children[SourceOf(call.data[k])].data[j] = call.data[k]
        /\ \A k, l \in 1..Len(call.data) :
              k < l =>
                  \/ SourceOf(call.data[k]) < SourceOf(call.data[l])
                  \/ /\ SourceOf(call.data[k]) = SourceOf(call.data[l])
                     /\ PlaceIn(call.data[k]) < PlaceIn(call.data[l])
        /\ (call.tag = TagAll /\ Len(AllItems(call.children)) <= AggregateLimit) =>
              /\ Len(call.data) = Len(AllItems(call.children))
              /\ \A i \in Succeeded :
                    \A j \in 1..Len(call.children[i].data) :
                        \E k \in 1..Len(call.data) : call.data[k] = call.children[i].data[j]

\* C26 witness: both sources have returned ten items and the aggregate has
\* returned the ten of the first source followed by the first two of the second.
C26_Witness ==
    /\ call.op = "AggregateFetch"
    /\ call.tag = TagAll
    /\ Succeeded = {1, 2}
    /\ Len(call.children[1].data) = HackerNewsLimit
    /\ Len(call.children[2].data) = DevToLimit
    /\ Len(call.data) = AggregateLimit
    /\ SourceOf(call.data[HackerNewsLimit]) = 1
    /\ SourceOf(call.data[HackerNewsLimit + 1]) = 2

\* C23: the current tag is "All" when the model has been built; the key "t"
\* moves it from "All" to the first configured tag, from a tag to the next
\* one and from the last tag back to "All", and the index stays within 0..N.
C23_TagCyclingWraps ==
    /\ NewsTagIndex \in 0..Len(NewsTags)
    /\ call.op = "initialModel" => GetCurrentNewsTag(NewsTagIndex, NewsTags) = All
    /\ call.op = "KeyT" =>
          /\ call.tag = GetCurrentNewsTag(NewsTagIndex, NewsTags)
          /\ (call.before = 0 /\ Len(NewsTags) > 0) => call.tag = NewsTags[1]
          /\ (call.before > 0 /\ call.before < Len(NewsTags)) =>
                call.tag = NewsTags[call.before + 1]
          /\ call.before = Len(NewsTags) => (call.tag = All /\ NewsTagIndex = 0)

\* C23 witness: with two configured tags the key "t" has been pressed on the
\* last tag and the current tag is "All" again.
C23_Witness ==
    /\ call.op = "KeyT"
    /\ Len(NewsTags) = MaxTags
    /\ call.before = Len(NewsTags)
    /\ NewsTagIndex = 0
    /\ widgets["news"].title = <<"Tech News", All>>

\* The tag that the plugins should hold for the tag shown by the widget
\* manager: "all" for "All", else the tag in lower case.
TagForShown ==
    LET shown == GetCurrentNewsTag(NewsTagIndex, NewsTags)
    IN IF shown = All THEN TagAll ELSE ToLower(shown)

\* C39: after a key "t" or "T", every registered news plugin holds the tag
\* shown by the widget manager in lower case ("all" for "All"), and with the
\* aggregate registered so does each of its sources.
C39_PluginsHoldShownTag ==
    call.op \in {"KeyT", "KeyShiftT"} =>
        /\ "hackernews" \in DOMAIN plugins => currentTag = TagForShown
        /\ "aggregate-news" \in DOMAIN plugins =>
              /\ aggTag = TagForShown
              /\ currentTag = TagForShown
              /\ devTag = TagForShown
        /\ \A i \in 1..Len(TagForShown) : TagForShown[i] \notin {"A", "G", "O", "P"}

\* C39 witness: with the aggregate registered and its sources not, the key
\* "t" has moved to the configured tag "Py" and the plugins hold "py".
C39_Witness ==
    /\ call.op = "KeyT"
    /\ call.tag = <<"P", "y">>
    /\ DOMAIN plugins = {"aggregate-news"}
    /\ aggTag = <<"p", "y">>
    /\ currentTag = <<"p", "y">>
    /\ devTag = <<"p", "y">>

\* C30: when a fetch cycle of the news widget is complete, the tile shows the
\* items of that cycle's outcome: after a newsMsg the count and the list are
\* those of the message's items, for a message without items the list of no
\* items, and after a fetch that returned an error the item of the failure.
C30_TileRebuiltFromOutcome ==
    /\ call.op = "newsMsg" =>
          /\ widgets["news"].count = Len(call.msg)
          /\ Len(call.msg) > 0 =>
                /\ Len(widgets["news"].list) = Len(call.msg)
                /\ \A k \in 1..Len(call.msg) :
                      /\ widgets["news"].list[k].ItemTitle = call.msg[k].Title
                      /\ widgets["news"].list[k].URL = call.msg[k].URL
          /\ Len(call.msg) = 0 =>
                /\ Len(widgets["news"].list) = 1
                /\ widgets["news"].list[1].ItemTitle = "No items available"
    /\ (call.op = "fetchNewsCmd" /\ call.err # NoErr) =>
          widgets["news"].list[1].ItemTitle = "Failed to fetch news"

\* C37: with no key pressed, the pending refreshes of the news (the timers
\* that will send a fetchNewsCmd and the fetchNewsCmd messages sent and not
\* yet received) are never more than the two that Model.Init leaves: its
\* timer of tickNews and its immediate fetchNewsCmd.
C37_NewsTimersDoNotGrow ==
    pendingNews.run => pendingNews.ticks + pendingNews.cmds <= 2

\* C27: when the fetch of the traffic widget fails while its tile shows the
\* items of an earlier fetch, the tile keeps that list and has the error mark.
C27_FailedFetchKeepsShownItems ==
    (/\ call.op = "fetchTrafficCmd"
     /\ call.fetched
     /\ call.err # NoErr
     /\ call.before.count > 0
     /\ ~call.before.hasError) =>
        /\ widgets["traffic"].list = call.before.list
        /\ widgets["traffic"].hasError

\* C28: when the Initialize of the traffic plugin has failed at its
\* registration, every later Fetch of the plugin returns an error and makes
\* no request.
C28_UnconfiguredFetchMakesNoRequest ==
    (call.op \in {"OSRMFetch", "fetchTrafficCmd"} /\ call.fetched /\ initFailed) =>
        /\ call.err # NoErr
        /\ ~call.io

\* C10 witness: the Hacker News Fetch has failed while both plugins hold the
\* data of an earlier successful Fetch.
C10_Witness ==
    /\ call.op = "HackerNewsFetch"
    /\ call.err # NoErr
    /\ newsLast # << >>
    /\ weatherLast # << >>

====
